---------------------------- MODULE Spec2Model ----------------------------
(***************************************************************************)
(* Sigma private-coin subsystem of the wallet engine extension.            *)
(*                                                                         *)
(* Amounts: the code carries amounts as satoshi, either as JS numbers or   *)
(* as decimal strings handled by biggystring (bns.gte, bns.sub, ...).      *)
(* Neither overflows in the range used here.  The model writes an amount   *)
(* as the integer it denotes, in units of 1 000 000 satoshi, so that the   *)
(* ladder fits the checker's integers: '5000000' is 5, SIGMA_COIN is 100.  *)
(* Amounts that are not multiples of the smallest denomination stay        *)
(* expressible (5000000 satoshi = 5 units).                                *)
(*                                                                         *)
(* Strings: an empty string is the empty tuple <<>>.  Commitments and      *)
(* serial numbers are the tuples the mint oracle returns.                  *)
(***************************************************************************)
EXTENDS Integers, Sequences, FiniteSets

VARIABLES
    oracleSeed,     \* the secret the external sigmaMint oracle derives from
    mintCall,       \* one call of getMintCommitmentsForValue: arguments, result
    coinLog,        \* the calls of createPrivateCoin made so far, with results
    txCall,         \* one call of createTX: arguments, result
    mintedCoins,    \* the coin store (zcoinStateExtensions.mintedCoins, mint.json)
    restoreFile,    \* restore.json holds {restored: true}
    restoreStored,  \* history: a restore's writeMintedCoins has succeeded
    blockHeight,    \* chain tip
    chainMints,     \* this key's commitments published on chain, in chain order
    foreignCount,   \* other wallets' commitments in the anonymity sets
    latestGroup,    \* latest anonymity-set group id of every denomination
    usedSerials,    \* serial numbers the chain has seen spent
    priorMints,     \* the coins an earlier mint sequence of this key recorded
    pcCycle,        \* where the running loop() / restore() stands
    rs,             \* restore()'s local variables
    restoreResult,  \* how the last restore() ended: none, true, false, throw
    utxoBalance,    \* sumUtxos(engineState.getUTXOs()): transparent balance
    mempool,        \* broadcast mint transactions that are not mined yet
    mintJob,        \* mint()'s locals: the amount asked for and the built tx
    metaData,       \* getMintMetadataLoop()'s mintData
    pcUser,         \* where the user's spend stands
    spendJob,       \* the spend transaction the user is building
    nextTxId,       \* transactions broadcast so far
    readFaults,     \* reads of the restore marker that the disk will still fail
    savedSpendTransactionValues,  \* txid -> value of the spends saved, as pairs
    canRunLoop,     \* this.canRunLoop
    timers,         \* setTimeout callbacks that are armed and have not fired
    looper,         \* addLooperMethodToLoop calls in flight, by where they stand
    unhandled       \* an addLooperMethodToLoop promise was rejected

pureVars == <<mintCall, coinLog, txCall>>
storeVars == <<mintedCoins, restoreFile, restoreStored>>
chainVars == <<blockHeight, chainMints, foreignCount, latestGroup, usedSerials,
               priorMints>>
cycleVars == <<pcCycle, rs, restoreResult>>
loopVars == <<utxoBalance, mempool, mintJob, metaData>>
userVars == <<pcUser, spendJob, nextTxId>>
diskVars == <<readFaults, savedSpendTransactionValues>>
looperVars == <<canRunLoop, timers, looper, unhandled>>
vars == <<oracleSeed, mintCall, coinLog, txCall, mintedCoins, restoreFile, restoreStored,
          blockHeight, chainMints, foreignCount, latestGroup, usedSerials,
          priorMints, pcCycle, rs, restoreResult, utxoBalance, mempool, mintJob,
          metaData, pcUser, spendJob, nextTxId, readFaults,
          savedSpendTransactionValues, canRunLoop, timers,
          looper, unhandled>>

----------------------------------------------------------------------------
(* flowTypes *)

SIGMA_COIN == 100

denominations == <<5, 10, 50, 100, 1000, 2500, 10000>>

EmptyString == <<>>

----------------------------------------------------------------------------
(* Bounds of the model *)

\* target values of getMintCommitmentsForValue: h * HighStep + l
MaxHigh == 25
MaxLow == 160
HighStep == 500
\* start indexes handed to getMintCommitmentsForValue: -1 .. MaxStart
MaxStart == 1
\* createPrivateCoin calls recorded in coinLog
MaxLog == 2
\* indexes handed to createPrivateCoin directly: 0 .. MaxCoinIndex
MaxCoinIndex == 1

TargetValues == {h * HighStep + l : h \in 0..MaxHigh, l \in 0..MaxLow}
StartIndexes == -1..MaxStart

\* wallet data keys, as the base64 strings the wallet holds
PrivateKeys == {"AQ==", "Ag=="}
OracleSeeds == {1, 2}

----------------------------------------------------------------------------
(* coinUtils (sigma) *)

\* hexFromArray(Buffer.from(privateKey, 'base64')): the key's bytes in hex
hexFromBase64(privateKey) ==
    CASE privateKey = "AQ==" -> "01"
      [] privateKey = "Ag==" -> "02"
      [] OTHER -> ""

\* io.sigmaMint: the external oracle.  It is deterministic: the same request
\* gives the same answer (oracleSeed never changes).  The commitment and the
\* serial depend on the key and the index only (part_000 line 202), the
\* denomination is carried with the request.
keyNumber(hex) == IF hex = "01" THEN 1 ELSE IF hex = "02" THEN 2 ELSE 0

sigmaMint(req) ==
    [commitment   |-> <<1, oracleSeed, keyNumber(req.privateKey), req.index>>,
     serialNumber |-> <<2, oracleSeed, keyNumber(req.privateKey), req.index>>]

\* mutant: the coin is derived at a running call counter, not at the index given
createPrivateCoin_CallCounter(value, privateKey, index) ==
    LET r == sigmaMint([denomination |-> <<value, SIGMA_COIN>>,
                        privateKey   |-> hexFromBase64(privateKey),
                        index        |-> index + Len(coinLog)])
    IN  [value |-> value, index |-> index, commitment |-> r.commitment,
         serialNumber |-> r.serialNumber, groupId |-> 0, isSpend |-> FALSE,
         spendTxId |-> EmptyString]

\* value / SIGMA_COIN is a fraction (0.05 for the smallest denomination): the
\* request carries it as <<numerator, denominator>>.
createPrivateCoin(value, privateKey, index) ==
    LET r == sigmaMint([denomination |-> <<value, SIGMA_COIN>>,
                        privateKey   |-> hexFromBase64(privateKey),
                        index        |-> index])
    IN  [value |-> value, index |-> index, commitment |-> r.commitment,
         serialNumber |-> r.serialNumber, groupId |-> 0, isSpend |-> FALSE,
         spendTxId |-> EmptyString]

\* the for/while loops of getMintCommitmentsForValue from ladder position i on
RECURSIVE MintLoop(_, _, _, _, _)
MintLoop(i, value, privateKey, currentIndex, result) ==
    IF i < 1 THEN result
    ELSE IF value >= denominations[i]
         THEN MintLoop(i, value - denominations[i], privateKey, currentIndex + 1,
                       Append(result, createPrivateCoin(denominations[i], privateKey,
                                                        currentIndex + 1)))
         ELSE MintLoop(i - 1, value, privateKey, currentIndex, result)

\* mutant: the ladder loop runs while i > 0 (0-based), skipping the smallest tier
RECURSIVE MintLoop_SkipSmallest(_, _, _, _, _)
MintLoop_SkipSmallest(i, value, privateKey, currentIndex, result) ==
    IF i < 2 THEN result
    ELSE IF value >= denominations[i]
         THEN MintLoop_SkipSmallest(i, value - denominations[i], privateKey,
                       currentIndex + 1,
                       Append(result, createPrivateCoin(denominations[i], privateKey,
                                                        currentIndex + 1)))
         ELSE MintLoop_SkipSmallest(i - 1, value, privateKey, currentIndex, result)

getMintCommitmentsForValue_SkipSmallest(value, privateKey, currentIndex) ==
    MintLoop_SkipSmallest(Len(denominations), value, privateKey, currentIndex, <<>>)

\* mutant: currentIndex++ once per ladder tier instead of once per coin
RECURSIVE MintLoop_IndexPerTier(_, _, _, _, _)
MintLoop_IndexPerTier(i, value, privateKey, currentIndex, result) ==
    IF i < 1 THEN result
    ELSE IF value >= denominations[i]
         THEN MintLoop_IndexPerTier(i, value - denominations[i], privateKey,
                       currentIndex,
                       Append(result, createPrivateCoin(denominations[i], privateKey,
                                                        currentIndex + 1)))
         ELSE MintLoop_IndexPerTier(i - 1, value, privateKey, currentIndex + 1, result)

getMintCommitmentsForValue_IndexPerTier(value, privateKey, currentIndex) ==
    MintLoop_IndexPerTier(Len(denominations), value, privateKey, currentIndex, <<>>)

\* mutant: the ladder is walked from the smallest denomination up
RECURSIVE MintLoop_Ascending(_, _, _, _, _)
MintLoop_Ascending(i, value, privateKey, currentIndex, result) ==
    IF i > Len(denominations) THEN result
    ELSE IF value >= denominations[i]
         THEN MintLoop_Ascending(i, value - denominations[i], privateKey,
                       currentIndex + 1,
                       Append(result, createPrivateCoin(denominations[i], privateKey,
                                                        currentIndex + 1)))
         ELSE MintLoop_Ascending(i + 1, value, privateKey, currentIndex, result)

getMintCommitmentsForValue_Ascending(value, privateKey, currentIndex) ==
    MintLoop_Ascending(1, value, privateKey, currentIndex, <<>>)

getMintCommitmentsForValue(value, privateKey, currentIndex) ==
    MintLoop(Len(denominations), value, privateKey, currentIndex, <<>>)

-----------------------------------------------------------------------------
(* utils/coinUtils.js: createTX *)

\* 32-bit unsigned numbers as <<high, low>> 16-bit words
Word == 2 ^ 16
Minus32(x, n) ==
    IF x[2] >= n THEN <<x[1], x[2] - n>>
    ELSE <<(x[1] + Word - 1) % Word, x[2] + Word - n>>
Less32(x, y) == x[1] < y[1] \/ (x[1] = y[1] /\ x[2] < y[2])

\* 0xffffffff, the final sequence number, which a new input carries
FINAL_SEQUENCE == <<Word - 1, Word - 1>>
\* line 23: the sequence number of the inputs of a replaceable transaction
RBF_SEQUENCE_NUM == Minus32(FINAL_SEQUENCE, 2)
\* blocks a coinbase output waits before it may be spent
COINBASE_MATURITY == 100

\* a JavaScript number: an integer or NaN
JsNumber(n) == [nan |-> FALSE, n |-> n]
NaN == [nan |-> TRUE, n |-> 0]

JsMinus(x, y) == IF x.nan \/ y.nan THEN NaN ELSE JsNumber(x.n - y.n)

\* parseInt(utxo.tx.outputs[utxo.index]): the argument is the output object,
\* whose string form "[object Object]" starts with no digit
ParseIntOfOutput(utxo) == NaN

\* parseInt(utxo.tx.outputs[utxo.index].value)
ParseIntOfValue(utxo) == JsNumber(utxo.value)

\* lines 217-220: the comparator createTX sorts the candidates with
CompareCandidates(a, b) == JsMinus(ParseIntOfOutput(b), ParseIntOfOutput(a))

\* the comparator of the funder's selection by value
CompareByValue(a, b) == JsMinus(ParseIntOfValue(b), ParseIntOfValue(a))

Compare(by, a, b) ==
    IF by = "candidates" THEN CompareCandidates(a, b) ELSE CompareByValue(a, b)

\* Array.prototype.sort takes a comparator result of NaN as +0, and is stable
SortOrder(v) == IF v.nan THEN 0 ELSE v.n

RECURSIVE InsertSorted(_, _, _)
InsertSorted(by, sorted, x) ==
    IF sorted = <<>> THEN <<x>>
    ELSE IF SortOrder(Compare(by, sorted[1], x)) > 0
         THEN <<x>> \o sorted
         ELSE <<sorted[1]>> \o InsertSorted(by, Tail(sorted), x)

RECURSIVE ArraySort(_, _)
ArraySort(by, array) ==
    IF array = <<>> THEN <<>>
    ELSE InsertSorted(by, ArraySort(by, SubSeq(array, 1, Len(array) - 1)),
                      array[Len(array)])

\* array.slice(0, end) for end >= 0
Slice(array, end) ==
    SubSeq(array, 1, IF end < Len(array) THEN end ELSE Len(array))

\* lines 339-340
RECURSIVE sumUtxos(_)
sumUtxos(utxos) ==
    IF utxos = <<>> THEN 0 ELSE utxos[1].value + sumUtxos(Tail(utxos))

RECURSIVE SumOutputs(_)
SumOutputs(outputs) ==
    IF outputs = <<>> THEN 0 ELSE outputs[1].value + SumOutputs(Tail(outputs))

\* no parent transaction: txOptions.CPFP = ''
NoParent == ""
ChangeAddress == "change"

\* the coins the funder passes over: coinbase outputs too young at height
Spendable(coin, height) ==
    ~(height >= 0 /\ coin.coinbase /\ height + 1 < coin.height + COINBASE_MATURITY)

\* the shortest prefix of coins worth at least needed, Len(coins) + 1 if none
RECURSIVE CoverCount(_, _, _)
CoverCount(coins, needed, n) ==
    IF sumUtxos(SubSeq(coins, 1, n)) >= needed THEN n
    ELSE IF n >= Len(coins) THEN Len(coins) + 1
         ELSE CoverCount(coins, needed, n + 1)

\* the fee is taken from the first output that stays positive without it
RECURSIVE SubtractIndex(_, _, _)
SubtractIndex(outputs, fee, k) ==
    IF k > Len(outputs) THEN 0
    ELSE IF outputs[k].value > fee THEN k
         ELSE SubtractIndex(outputs, fee, k + 1)

\* mtx.fund: inputs are selected by value until the outputs (and the fee,
\* unless it is subtracted from an output) are covered; what is left over
\* becomes a change output
Fund(outputs, coins, subtractFee, height, fee) ==
    LET usable  == SelectSeq(coins, LAMBDA c : Spendable(c, height))
        ordered == ArraySort("value", usable)
        needed  == SumOutputs(outputs) + (IF subtractFee THEN 0 ELSE fee)
        n       == CoverCount(ordered, needed, 0)
        inputs  == SubSeq(ordered, 1, n)
        k       == SubtractIndex(outputs, fee, 1)
        paid    == IF subtractFee
                   THEN [j \in 1..Len(outputs) |->
                           IF j = k THEN [outputs[j] EXCEPT !.value = @ - fee]
                           ELSE outputs[j]]
                   ELSE outputs
        change  == sumUtxos(inputs) - needed
    IN  IF n > Len(ordered)
        THEN [error |-> "FundingError", inputs |-> <<>>, outputs |-> <<>>]
        ELSE IF subtractFee /\ k = 0
        THEN [error |-> "Could not subtract fee.", inputs |-> <<>>, outputs |-> <<>>]
        ELSE [error |-> "", inputs |-> inputs,
              outputs |-> IF change > 0
                          THEN Append(paid, [address |-> ChangeAddress,
                                             value |-> change])
                          ELSE paid]

\* mtx.verifyInputs(height): no input spends a coinbase output too young
VerifyInputs(inputs, height) ==
    \A k \in 1..Len(inputs) :
        inputs[k].coin.coinbase
            => height - inputs[k].coin.height >= COINBASE_MATURITY

\* what a createTX call leaves: the error thrown or the transaction, the
\* candidates kept, the addOutput calls made and whether fund was called
TxResult(error, inputs, outputs, kept, added, funded) ==
    [error |-> error, inputs |-> inputs, outputs |-> outputs, kept |-> kept,
     outputsAdded |-> added, fundCalled |-> funded]

\* mutant: the inputs keep the final sequence number
InputSequence_Final(setRBF) == FINAL_SEQUENCE

\* lines 264-269
InputSequence(setRBF) == IF setRBF THEN RBF_SEQUENCE_NUM ELSE FINAL_SEQUENCE

\* mutant: the parent's outputs are not singled out
Candidates_AnyParent(utxos, CPFP) == utxos

\* line 212
Candidates(utxos, CPFP) == SelectSeq(utxos, LAMBDA u : u.txid = CPFP)

\* mutant: the empty build is funded
NoOutputs_Funded(outputs) == FALSE

\* line 233
NoOutputs(outputs) == Len(outputs) = 0

\* mutant: the inputs are not verified
ContextCheckFails_Skipped(inputs, height) == FALSE

\* line 272
ContextCheckFails(inputs, height) ==
    height # -1 /\ ~VerifyInputs(inputs, height)

\* lines 181-276
createTX(a) ==
    LET cpfp        == a.CPFP # NoParent
        filtered    == IF cpfp THEN Candidates(a.utxos, a.CPFP) ELSE a.utxos
        sorted      == IF cpfp THEN ArraySort("candidates", filtered) ELSE filtered
        utxos       == IF cpfp /\ a.CPFPlimit # 0
                       THEN Slice(sorted, a.CPFPlimit) ELSE sorted
        subtractFee == IF cpfp THEN TRUE ELSE a.subtractFee
        outputs     == IF cpfp
                       THEN Append(a.outputs, [address |-> ChangeAddress,
                                               value |-> sumUtxos(utxos)])
                       ELSE a.outputs
        funded      == Fund(outputs, utxos, subtractFee, a.height, a.fee)
        inputs      == [k \in 1..Len(funded.inputs) |->
                          [coin |-> funded.inputs[k],
                           sequence |-> InputSequence(a.setRBF)]]
    IN  IF NoOutputs(outputs)
        THEN TxResult("No outputs available.", <<>>, <<>>, utxos, 0, FALSE)
        ELSE IF funded.error # ""
        THEN TxResult(funded.error, <<>>, <<>>, utxos, Len(outputs), TRUE)
        ELSE IF ContextCheckFails(inputs, a.height)
        THEN TxResult("TX failed context check.", <<>>, <<>>, utxos,
                      Len(outputs), TRUE)
        ELSE TxResult("", inputs, funded.outputs, utxos, Len(outputs), TRUE)

NoTxArgs ==
    [utxos |-> <<>>, outputs |-> <<>>, CPFP |-> NoParent, CPFPlimit |-> 1,
     subtractFee |-> FALSE, setRBF |-> FALSE, height |-> -1, fee |-> 0]

NoTxCall ==
    [args |-> NoTxArgs, done |-> TRUE,
     result |-> TxResult("", <<>>, <<>>, <<>>, 0, FALSE)]

----------------------------------------------------------------------------
(* Helpers of the properties *)

RECURSIVE SumValues(_)
SumValues(coins) ==
    IF coins = <<>> THEN 0 ELSE coins[1].value + SumValues(Tail(coins))

DenominationSet == {denominations[i] : i \in 1..Len(denominations)}

\* what is left of value when the tiers above ladder position i were taken
RECURSIVE LeftAt(_, _)
LeftAt(i, value) ==
    IF i >= Len(denominations) THEN value
    ELSE LeftAt(i + 1, value) % denominations[i + 1]

CountOf(coins, d) == Cardinality({k \in 1..Len(coins) : coins[k].value = d})

----------------------------------------------------------------------------
(* Program constants of the engine extension *)

\* restore(): consecutive misses that end the scan (while counter++ < 100)
MISS_LIMIT == 100
\* restore(): the value every candidate is derived with (line 204)
RESTORE_VALUE == 100
\* getMintMetadataLoop(): confirmations a mint needs before it gets its group
CONFIRMATIONS == 5

\* currencyEngine.walletInfo.keys.dataKey
DataKey == "AQ=="

----------------------------------------------------------------------------
(* The coin store's accessors (ZcoinStateExtension) and the chain queries *)

\* the largest index in the store, -1 for an empty store
RECURSIVE MaxIndexOf(_)
MaxIndexOf(coins) ==
    IF coins = <<>> THEN -1
    ELSE LET m == MaxIndexOf(Tail(coins))
         IN  IF coins[1].index > m THEN coins[1].index ELSE m

getLastPrivateCoinIndex == MaxIndexOf(mintedCoins)

retrieveUsedCoinSerials == [serials |-> usedSerials]

retrieveLatestCoinIds ==
    [i \in 1..Len(denominations) |-> [denom |-> denominations[i], id |-> latestGroup]]

\* other wallets' commitments: they sit in group 1 of the RESTORE_VALUE tier
ForeignCoins(denom, groupId) ==
    IF denom = RESTORE_VALUE /\ groupId = 1
    THEN [n \in 1..foreignCount |-> <<0, 0, 0, n>>]
    ELSE <<>>

RECURSIVE CommitmentsOf(_, _, _)
CommitmentsOf(published, denom, groupId) ==
    IF published = <<>> THEN <<>>
    ELSE (IF published[1].denom = denom /\ published[1].group = groupId
          THEN <<published[1].commitment>> ELSE <<>>)
         \o CommitmentsOf(Tail(published), denom, groupId)

retrieveAnonymitySet(denom, groupId) ==
    [blockHash |-> <<groupId>>,
     serializedCoins |-> CommitmentsOf(chainMints, denom, groupId)
                            \o ForeignCoins(denom, groupId)]

Includes(array, x) == \E k \in 1..Len(array) : array[k] = x

----------------------------------------------------------------------------
(* makeMint: the coins of one spend target (lines 355-375) *)

\* mutant: the coins keep the fields createPrivateCoin gave them
AsMinted_AsCreated(coins) == coins

RECURSIVE AsMinted(_)
AsMinted(coins) ==
    IF coins = <<>> THEN <<>>
    ELSE <<[coins[1] EXCEPT !.groupId = -1, !.isSpend = FALSE,
                            !.spendTxId = EmptyString]>> \o AsMinted(Tail(coins))

MintsForTarget(balance, currentMaxIndex) ==
    AsMinted(getMintCommitmentsForValue(balance, DataKey, currentMaxIndex))

----------------------------------------------------------------------------
(* restore() *)

\* lines 185-197: the anonymity sets of groups 1..id of one denomination
RECURSIVE SetsUpTo(_, _)
SetsUpTo(denom, id) ==
    IF id < 1 THEN <<>>
    ELSE SetsUpTo(denom, id - 1) \o retrieveAnonymitySet(denom, id).serializedCoins

RECURSIVE TotalLength(_)
TotalLength(infos) ==
    IF infos = <<>> THEN 0
    ELSE Len(infos[1].anonymitySet) + TotalLength(Tail(infos))

\* lines 177-200: the locals of restore() when the scan begins
RestoreLocals ==
    LET ids   == retrieveLatestCoinIds
        infos == [i \in 1..Len(ids) |->
                    [denom |-> ids[i].denom, id |-> ids[i].id,
                     anonymitySet |-> SetsUpTo(ids[i].denom, ids[i].id)]]
    IN  [usedSerialNumbers |-> retrieveUsedCoinSerials.serials,
         latestCoinIds     |-> infos,
         commitmentCount   |-> TotalLength(infos),
         counter           |-> 0,
         index             |-> -1,
         mintData          |-> <<>>]

\* the awaits of loop() an addLooperMethodToLoop call waits in, and how the
\* loop() of a call has settled
Phases == {"restore", "mint", "refresh", "resolved", "rejected"}

\* the extension as constructed: canRunLoop is not set, nothing is in flight
NoLooper ==
    /\ canRunLoop = FALSE
    /\ timers = 0
    /\ looper = [p \in Phases |-> 0]
    /\ unhandled = FALSE

\* mint()'s locals: the amount of the spend target, the transaction makeMint
\* returned, the makeMint calls made and the error mint() logged last
NoMintJob == [amount |-> 0, mintsForSave |-> <<>>, fee |-> 0, calls |-> 0,
              error |-> "none"]

\* mint() returns after it logged an error: no transaction is left
Abandoned(job, error) == [NoMintJob EXCEPT !.calls = job.calls, !.error = error]
\* the user's request: the call made, what it read before it returned, its
\* outcome and the transaction it carries
NoSpendJob == [target |-> 0, result |-> "none", spendCoins |-> <<>>, value |-> 0,
               currentIndex |-> -1, mintsForSave |-> <<>>, txid |-> 0,
               call |-> "", reads |-> {}]

\* no mint, refresh or spend is under way and nothing was broadcast
NoJobs ==
    /\ utxoBalance = 0
    /\ mempool = <<>>
    /\ mintJob = NoMintJob
    /\ metaData = 0
    /\ pcUser = "idle"
    /\ spendJob = NoSpendJob
    /\ nextTxId = 0
    /\ savedSpendTransactionValues = {}
    /\ NoLooper

NoLocals ==
    [usedSerialNumbers |-> <<>>, latestCoinIds |-> <<>>, commitmentCount |-> 0,
     counter |-> 0, index |-> -1, mintData |-> <<>>]

\* mutant: the scan goes on while either test holds
RestoreLoopTest_Or(s) ==
    IF s.counter < MISS_LIMIT
    THEN [enter |-> TRUE,
          counter |-> s.counter + 1, index |-> s.index]
    ELSE [enter |-> s.index < s.commitmentCount,
          counter |-> s.counter + 1, index |-> s.index + 1]

\* mutant: the misses are not counted
RestoreLoopTest_NoMissLimit(s) ==
    [enter |-> s.index < s.commitmentCount,
     counter |-> s.counter + 1, index |-> s.index + 1]

\* line 201: while (counter++ < 100 && index++ < commitmentCount); the second
\* operand, and its increment, are evaluated only when the first holds
RestoreLoopTest(s) ==
    IF s.counter < MISS_LIMIT
    THEN [enter |-> s.index < s.commitmentCount,
          counter |-> s.counter + 1, index |-> s.index + 1]
    ELSE [enter |-> FALSE, counter |-> s.counter + 1, index |-> s.index]

\* lines 211-225: the first group whose anonymity set holds the commitment
FirstMatch(infos, commitment) ==
    IF \E i \in 1..Len(infos) : Includes(infos[i].anonymitySet, commitment)
    THEN CHOOSE i \in 1..Len(infos) :
            /\ Includes(infos[i].anonymitySet, commitment)
            /\ \A j \in 1..(i - 1) : ~Includes(infos[j].anonymitySet, commitment)
    ELSE 0

\* mutant: no break, a record is pushed for every group that matches
RECURSIVE AllMatches(_, _, _, _)
AllMatches(infos, coin, index, isSpend) ==
    IF infos = <<>> THEN <<>>
    ELSE (IF Includes(infos[1].anonymitySet, coin.commitment)
          THEN <<[value |-> infos[1].denom, index |-> index,
                  commitment |-> coin.commitment, serialNumber |-> EmptyString,
                  groupId |-> infos[1].id, isSpend |-> isSpend,
                  spendTxId |-> EmptyString]>>
          ELSE <<>>)
         \o AllMatches(Tail(infos), coin, index, isSpend)

RestoreLoopBody_NoBreak(s) ==
    LET coin    == createPrivateCoin(RESTORE_VALUE, DataKey, s.index)
        isSpend == Includes(s.usedSerialNumbers, coin.serialNumber)
        found   == AllMatches(s.latestCoinIds, coin, s.index, isSpend)
    IN  IF found = <<>> THEN s
        ELSE [s EXCEPT !.mintData = @ \o found, !.counter = 0]

\* mutant: every restored coin is recorded as unspent
RestoreLoopBody_Unspent(s) ==
    LET coin == createPrivateCoin(RESTORE_VALUE, DataKey, s.index)
        m    == FirstMatch(s.latestCoinIds, coin.commitment)
    IN  IF m = 0 THEN s
        ELSE [s EXCEPT
                !.mintData = Append(@,
                    [value |-> s.latestCoinIds[m].denom, index |-> s.index,
                     commitment |-> coin.commitment, serialNumber |-> EmptyString,
                     groupId |-> s.latestCoinIds[m].id, isSpend |-> FALSE,
                     spendTxId |-> EmptyString]),
                !.counter = 0]

\* lines 202-225: the loop body, s.index being the index to derive
RestoreLoopBody(s) ==
    LET coin    == createPrivateCoin(RESTORE_VALUE, DataKey, s.index)
        isSpend == Includes(s.usedSerialNumbers, coin.serialNumber)
        m       == FirstMatch(s.latestCoinIds, coin.commitment)
    IN  IF m = 0 THEN s
        ELSE [s EXCEPT
                !.mintData = Append(@,
                    [value |-> s.latestCoinIds[m].denom, index |-> s.index,
                     commitment |-> coin.commitment, serialNumber |-> EmptyString,
                     groupId |-> s.latestCoinIds[m].id, isSpend |-> isSpend,
                     spendTxId |-> EmptyString]),
                !.counter = 0]

\* reads of the restore marker that fail on a wallet whose disk is faulty
MaxReadFaults == 1

\* mutant: a marker that cannot be read counts as present
RestoreReadMarker_TrustFile ==
    /\ pcCycle = "restore"
    /\ IF restoreFile
       THEN /\ restoreResult' = "true"
            /\ pcCycle' = "restoreDone"
       ELSE /\ pcCycle' = "restoreQuery"
            /\ UNCHANGED restoreResult
    /\ UNCHANGED <<oracleSeed, pureVars, diskVars, looperVars, loopVars, userVars, storeVars, chainVars, rs>>

\* lines 166-175: the marker is read. getText throws when the file is missing
\* and when it cannot be read; the catch logs either and the scan goes on
RestoreReadMarker ==
    /\ pcCycle = "restore"
    /\ \/ /\ restoreFile
          /\ restoreResult' = "true"
          /\ pcCycle' = "restoreDone"
          /\ UNCHANGED readFaults
       \/ /\ ~restoreFile
          /\ pcCycle' = "restoreQuery"
          /\ UNCHANGED <<restoreResult, readFaults>>
       \/ /\ restoreFile
          /\ readFaults > 0
          /\ readFaults' = readFaults - 1
          /\ pcCycle' = "restoreQuery"
          /\ UNCHANGED restoreResult
    /\ UNCHANGED <<oracleSeed, pureVars, looperVars, loopVars, userVars, storeVars,
                   chainVars, rs, savedSpendTransactionValues>>

\* lines 177-200: the chain queries; any of them may throw, and restore() with it
RestoreQuery ==
    /\ pcCycle = "restoreQuery"
    /\ \/ /\ rs' = RestoreLocals
          /\ pcCycle' = "restoreScan"
          /\ UNCHANGED restoreResult
       \/ /\ restoreResult' = "throw"
          /\ pcCycle' = "restoreDone"
          /\ UNCHANGED rs
    /\ UNCHANGED <<oracleSeed, pureVars, diskVars, looperVars, loopVars, userVars, storeVars, chainVars>>

\* lines 201-226: one evaluation of the loop test and, if it holds, of the body;
\* the oracle may throw, and restore() with it
RestoreScanStep ==
    /\ pcCycle = "restoreScan"
    /\ LET t == RestoreLoopTest(rs)
           s == [rs EXCEPT !.counter = t.counter, !.index = t.index]
       IN  IF t.enter
           THEN \/ /\ rs' = RestoreLoopBody(s)
                   /\ UNCHANGED <<pcCycle, restoreResult>>
                \/ /\ rs' = NoLocals
                   /\ restoreResult' = "throw"
                   /\ pcCycle' = "restoreDone"
           ELSE /\ rs' = s
                /\ pcCycle' = "restoreWrite"
                /\ UNCHANGED restoreResult
    /\ UNCHANGED <<oracleSeed, pureVars, diskVars, looperVars, loopVars, userVars, storeVars, chainVars>>

\* mutant: a failed writeMintedCoins is swallowed and the marker is written anyway
RestoreWrite_MarkAnyway ==
    /\ pcCycle = "restoreWrite"
    /\ \/ /\ mintedCoins' = rs.mintData
          /\ restoreStored' = TRUE
          /\ pcCycle' = "restoreMark"
          /\ UNCHANGED <<restoreFile, restoreResult>>
       \/ /\ pcCycle' = "restoreMark"
          /\ UNCHANGED <<storeVars, restoreResult>>
    /\ UNCHANGED <<oracleSeed, pureVars, diskVars, looperVars, loopVars, userVars, chainVars, rs>>

\* lines 228-230, 236-238: writeMintedCoins(mintData) replaces the store, or fails
RestoreWrite ==
    /\ pcCycle = "restoreWrite"
    /\ \/ /\ mintedCoins' = rs.mintData
          /\ restoreStored' = TRUE
          /\ pcCycle' = "restoreMark"
          /\ UNCHANGED <<restoreFile, restoreResult>>
       \/ /\ restoreResult' = "false"
          /\ pcCycle' = "restoreDone"
          /\ UNCHANGED storeVars
    /\ UNCHANGED <<oracleSeed, pureVars, diskVars, looperVars, loopVars, userVars, chainVars, rs>>

\* lines 231-240: the marker is written, or the write fails
RestoreMark ==
    /\ pcCycle = "restoreMark"
    /\ \/ /\ restoreFile' = TRUE
          /\ restoreResult' = "true"
       \/ /\ restoreResult' = "false"
          /\ UNCHANGED restoreFile
    /\ pcCycle' = "restoreDone"
    /\ UNCHANGED <<oracleSeed, pureVars, diskVars, looperVars, loopVars, userVars, mintedCoins, restoreStored, chainVars, rs>>

restore == RestoreReadMarker \/ RestoreQuery \/ RestoreScanStep \/ RestoreWrite
              \/ RestoreMark

----------------------------------------------------------------------------
(* restore() called on a wallet whose coin store was lost *)

\* prior mint transactions, their amounts drawn from PriorAmounts
MaxPriorMints == 2
PriorAmounts == {10, 60}
\* other wallets' commitments on a busy chain
ForeignMany == 101
MaxGroupId == 2

RECURSIVE PriorStore(_)
PriorStore(amounts) ==
    IF amounts = <<>> THEN <<>>
    ELSE LET before == PriorStore(SubSeq(amounts, 1, Len(amounts) - 1))
         IN  before \o MintsForTarget(amounts[Len(amounts)], MaxIndexOf(before))

\* the coins of the prior transactions that were mined: groupOf[t] is the group
\* transaction t's coins joined, 0 when the transaction never confirmed
RECURSIVE PriorPublished(_, _)
PriorPublished(amounts, groupOf) ==
    IF amounts = <<>> THEN <<>>
    ELSE LET n      == Len(amounts)
             before == SubSeq(amounts, 1, n - 1)
             coins  == MintsForTarget(amounts[n], MaxIndexOf(PriorStore(before)))
         IN  PriorPublished(before, groupOf)
             \o (IF groupOf[n] = 0 THEN <<>>
                 ELSE [k \in 1..Len(coins) |->
                         [commitment |-> coins[k].commitment, denom |-> coins[k].value,
                          group |-> groupOf[n], height |-> 0]])

SerialsOf(coins, picked) ==
    LET ks == {k \in 1..Len(coins) : coins[k].index \in picked}
    IN  {coins[k].serialNumber : k \in ks}

RECURSIVE SeqOfSet(_)
SeqOfSet(S) ==
    IF S = {} THEN <<>>
    ELSE LET x == CHOOSE y \in S : TRUE IN <<x>> \o SeqOfSet(S \ {x})

IsPublished(coin) == \E k \in 1..Len(chainMints) : chainMints[k].commitment = coin.commitment

InitRestore ==
    /\ oracleSeed = 1
    /\ mintCall = [value |-> 0, privateKey |-> DataKey, currentIndex |-> 0,
                   done |-> TRUE, result |-> <<>>]
    /\ coinLog = <<>>
    /\ txCall = NoTxCall
    /\ mintedCoins = <<>>
    /\ restoreFile = FALSE
    /\ restoreStored = FALSE
    /\ blockHeight \in {0, CONFIRMATIONS}
    /\ foreignCount \in {0, ForeignMany}
    /\ latestGroup \in 1..MaxGroupId
    /\ \E n \in 0..MaxPriorMints :
         \E amounts \in [1..n -> PriorAmounts],
            groupOf \in [1..n -> {0, 1, latestGroup}] :
            /\ priorMints = PriorStore(amounts)
            /\ chainMints = PriorPublished(amounts, groupOf)
    /\ \E picked \in {{}, {1}} :
          usedSerials = SeqOfSet({x \in SerialsOf(priorMints, picked) :
                                    \E k \in 1..Len(priorMints) :
                                        /\ priorMints[k].serialNumber = x
                                        /\ IsPublished(priorMints[k])})
    /\ pcCycle = "idle"
    /\ rs = NoLocals
    /\ restoreResult = "none"
    /\ NoJobs
    /\ readFaults \in 0..MaxReadFaults

CallRestore ==
    /\ pcCycle = "idle"
    /\ pcCycle' = "restore"
    /\ restoreResult' = "none"
    /\ UNCHANGED <<oracleSeed, pureVars, diskVars, looperVars, loopVars, userVars, storeVars, chainVars, rs>>

RestoreReturn ==
    /\ pcCycle = "restoreDone"
    /\ pcCycle' = "idle"
    /\ rs' = NoLocals
    /\ UNCHANGED <<oracleSeed, pureVars, diskVars, looperVars, loopVars, userVars, storeVars, chainVars, restoreResult>>

NextRestore == CallRestore \/ restore \/ RestoreReturn

SpecRestore == InitRestore /\ [][NextRestore]_vars

\* A lost-store wallet whose two mint transactions were derived from the same
\* index (makeMint line 345 reads the store only): a commitment is published
\* under two denominations.
InitReuse ==
    /\ oracleSeed = 1
    /\ mintCall = [value |-> 0, privateKey |-> DataKey, currentIndex |-> 0,
                   done |-> TRUE, result |-> <<>>]
    /\ coinLog = <<>>
    /\ txCall = NoTxCall
    /\ mintedCoins = <<>>
    /\ restoreFile = FALSE
    /\ restoreStored = FALSE
    /\ blockHeight = 0
    /\ foreignCount = 0
    /\ latestGroup \in 1..MaxGroupId
    /\ \E a \in PriorAmounts, b \in PriorAmounts \cup {0}, g \in 1..latestGroup :
          LET first == MintsForTarget(a, -1)
              again == MintsForTarget(b, -1)
          IN  /\ priorMints = first \o again
              /\ chainMints =
                    [k \in 1..Len(first) |->
                        [commitment |-> first[k].commitment, denom |-> first[k].value,
                         group |-> 1, height |-> 0]]
                    \o [k \in 1..Len(again) |->
                          [commitment |-> again[k].commitment,
                           denom |-> again[k].value, group |-> g, height |-> 0]]
    /\ usedSerials = <<>>
    /\ pcCycle = "idle"
    /\ rs = NoLocals
    /\ restoreResult = "none"
    /\ NoJobs
    /\ readFaults = 0

SpecReuse == InitReuse /\ [][NextRestore]_vars

\* the lost-store wallets with one group per denomination, no spend published
\* and a readable disk
InitScan ==
    /\ InitRestore
    /\ blockHeight = 0
    /\ latestGroup = 1
    /\ usedSerials = <<>>
    /\ readFaults = 0

\* every await of the scan settles: the oracle answers or throws
SpecScan == InitScan /\ [][NextRestore]_vars /\ WF_vars(RestoreScanStep)

----------------------------------------------------------------------------
(* The pure functions, called on bounded inputs *)

\* the wallet stays as constructed while the pure functions are exercised
WalletUnused ==
    /\ mintedCoins = <<>>
    /\ restoreFile = FALSE
    /\ restoreStored = FALSE
    /\ blockHeight = 0
    /\ chainMints = <<>>
    /\ foreignCount = 0
    /\ latestGroup = 1
    /\ usedSerials = <<>>
    /\ priorMints = <<>>
    /\ pcCycle = "idle"
    /\ rs = NoLocals
    /\ restoreResult = "none"
    /\ NoJobs
    /\ readFaults = 0

walletVars == <<storeVars, chainVars, cycleVars, loopVars, userVars, diskVars,
                looperVars>>

InitPure ==
    /\ WalletUnused
    /\ oracleSeed \in OracleSeeds
    /\ \E v \in TargetValues, k \in PrivateKeys, s \in StartIndexes :
          mintCall = [value |-> v, privateKey |-> k, currentIndex |-> s,
                      done |-> FALSE, result |-> <<>>]
    /\ coinLog = <<>>
    /\ txCall = NoTxCall

CallGetMintCommitmentsForValue ==
    /\ ~mintCall.done
    /\ mintCall' = [mintCall EXCEPT
                      !.done = TRUE,
                      !.result = getMintCommitmentsForValue(mintCall.value,
                                    mintCall.privateKey, mintCall.currentIndex)]
    /\ UNCHANGED <<oracleSeed, coinLog, txCall, walletVars>>

NextPure == CallGetMintCommitmentsForValue

SpecPure == InitPure /\ [][NextPure]_vars

\* createPrivateCoin called MaxLog times on arguments of the caller's choice
InitCoin ==
    /\ WalletUnused
    /\ oracleSeed \in OracleSeeds
    /\ mintCall = [value |-> 0, privateKey |-> "AQ==", currentIndex |-> 0,
                   done |-> TRUE, result |-> <<>>]
    /\ coinLog = <<>>
    /\ txCall = NoTxCall

CallCreatePrivateCoin ==
    /\ Len(coinLog) < MaxLog
    /\ \E i \in 1..Len(denominations), k \in PrivateKeys, n \in 0..MaxCoinIndex :
          coinLog' = Append(coinLog,
                        [value |-> denominations[i], privateKey |-> k, index |-> n,
                         coin |-> createPrivateCoin(denominations[i], k, n)])
    /\ UNCHANGED <<oracleSeed, mintCall, txCall, walletVars>>

NextCoin == CallCreatePrivateCoin

SpecCoin == InitCoin /\ [][NextCoin]_vars

\* createTX called once on arguments of the caller's choice
MaxUtxos == 2
MaxOutputs == 1
MaxCPFPlimit == 2
ParentTxids == {"p1", "p2"}
UtxoChoices ==
    {[txid |-> "p1", value |-> 3, coinbase |-> FALSE, height |-> 0],
     [txid |-> "p1", value |-> 8, coinbase |-> FALSE, height |-> 0],
     [txid |-> "p2", value |-> 5, coinbase |-> FALSE, height |-> 0],
     [txid |-> "p1", value |-> 6, coinbase |-> TRUE, height |-> 0]}
OutputChoices == {[address |-> "dest", value |-> 4]}
TargetHeights == {-1, COINBASE_MATURITY - 1, COINBASE_MATURITY}
TxFees == {1, 4}

SeqsUpTo(S, n) == UNION {[1..m -> S] : m \in 0..n}

TxArgs ==
    [utxos : SeqsUpTo(UtxoChoices, MaxUtxos),
     outputs : SeqsUpTo(OutputChoices, MaxOutputs),
     CPFP : {NoParent} \cup ParentTxids,
     CPFPlimit : 0..MaxCPFPlimit,
     subtractFee : BOOLEAN,
     setRBF : BOOLEAN,
     height : TargetHeights,
     fee : TxFees]

InitTx ==
    /\ WalletUnused
    /\ oracleSeed = 1
    /\ mintCall = [value |-> 0, privateKey |-> DataKey, currentIndex |-> 0,
                   done |-> TRUE, result |-> <<>>]
    /\ coinLog = <<>>
    /\ \E a \in TxArgs : txCall = [NoTxCall EXCEPT !.args = a, !.done = FALSE]

CallCreateTX ==
    /\ ~txCall.done
    /\ txCall' = [txCall EXCEPT !.done = TRUE, !.result = createTX(txCall.args)]
    /\ UNCHANGED <<oracleSeed, mintCall, coinLog, walletVars>>

NextTx == CallCreateTX

SpecTx == InitTx /\ [][NextTx]_vars

----------------------------------------------------------------------------
(* The wallet: loop() on its timer, the user's spends, and the chain *)

\* blocks the chain grows by; deposits arrive until the wallet has broadcast
\* MaxFundedTx transactions, and it broadcasts MaxTx transactions at most
MaxHeight == 6
MaxFundedTx == 1
DepositAmounts == {11, 60}
FeeChoices == {1, 7}
SpendAmounts == {5, 40}
MaxTx == 3
\* the group ids the chain hands out
ChainGroups == 0..latestGroup

InitWallet ==
    /\ oracleSeed = 1
    /\ mintCall = [value |-> 0, privateKey |-> DataKey, currentIndex |-> 0,
                   done |-> TRUE, result |-> <<>>]
    /\ coinLog = <<>>
    /\ txCall = NoTxCall
    /\ WalletUnused

\* the timer fires loop(), whose first statement calls restore()
LoopStart ==
    /\ pcCycle = "idle"
    /\ pcCycle' = "restore"
    /\ restoreResult' = "none"
    /\ UNCHANGED <<oracleSeed, pureVars, diskVars, looperVars, loopVars, userVars, storeVars, chainVars, rs>>

\* lines 127-130: loop() goes on only when restore() returned true
LoopAfterRestore ==
    /\ pcCycle = "restoreDone"
    /\ pcCycle' = IF restoreResult = "true" THEN "loopMint" ELSE "idle"
    /\ rs' = NoLocals
    /\ UNCHANGED <<oracleSeed, pureVars, diskVars, looperVars, loopVars, userVars, storeVars, chainVars,
                   restoreResult>>

\* mutant: the whole balance is asked for
NeedToMint_WholeBalance(balance) == balance

\* lines 136-143: the amount loop() asks mint() for
NeedToMint(balance) ==
    IF (balance \div denominations[1]) * denominations[1] = balance
    THEN balance - denominations[1]
    ELSE balance

\* mutant: the refresh is started without waiting for the mint
LoopMint_RefreshFirst ==
    /\ pcCycle = "loopMint"
    /\ mintJob' = NoMintJob
    /\ pcCycle' = "metaRead"
    /\ UNCHANGED <<oracleSeed, pureVars, diskVars, looperVars, utxoBalance, mempool,
                   metaData, userVars, storeVars, chainVars, rs, restoreResult>>

\* lines 132-156
LoopMint ==
    /\ pcCycle = "loopMint"
    /\ IF utxoBalance > denominations[1]
       THEN /\ mintJob' = [NoMintJob EXCEPT !.amount = NeedToMint(utxoBalance)]
            /\ pcCycle' = "makeMint"
       ELSE /\ mintJob' = NoMintJob
            /\ pcCycle' = "metaRead"
    /\ UNCHANGED <<oracleSeed, pureVars, diskVars, looperVars, utxoBalance, mempool,
                   metaData, userVars, storeVars, chainVars, rs, restoreResult>>

\* mutant: one retry only
AfterMakeMintError_RetryOnce(job, message) ==
    IF message = "InsufficientFundsError" /\ job.calls = 0
                                          /\ job.amount > denominations[1]
    THEN [retry |-> TRUE,
          job |-> [job EXCEPT !.amount = @ - denominations[1],
                              !.calls = @ + 1, !.error = message]]
    ELSE [retry |-> FALSE,
          job |-> Abandoned([job EXCEPT !.calls = @ + 1], message)]

\* mutant: the retry is made at the smallest denomination too
AfterMakeMintError_RetryAtSmallest(job, message) ==
    IF message = "InsufficientFundsError" /\ job.amount >= denominations[1]
    THEN [retry |-> TRUE,
          job |-> [job EXCEPT !.amount = @ - denominations[1],
                              !.calls = @ + 1, !.error = message]]
    ELSE [retry |-> FALSE,
          job |-> Abandoned([job EXCEPT !.calls = @ + 1], message)]

\* lines 281-299: what mint() does when its makeMint call threw e
AfterMakeMintError(job, message) ==
    IF message = "InsufficientFundsError"
    THEN IF job.amount > denominations[1]
         THEN [retry |-> TRUE,
               job |-> [job EXCEPT !.amount = @ - denominations[1],
                                   !.calls = @ + 1, !.error = message]]
         ELSE [retry |-> FALSE,
               job |-> Abandoned([job EXCEPT !.calls = @ + 1], message)]
    ELSE [retry |-> FALSE,
          job |-> Abandoned([job EXCEPT !.calls = @ + 1], message)]

\* lines 277-302 and 317-440: one makeMint() call of mint()'s retry loop
MakeMint ==
    /\ pcCycle = "makeMint"
    /\ LET mints == MintsForTarget(mintJob.amount, getLastPrivateCoinIndex)
       IN  \E fee \in FeeChoices :
             \/ \* createTX funds the transaction
                /\ mintJob.amount <= utxoBalance
                /\ mints # <<>>
                /\ SumValues(mints) + fee <= utxoBalance
                /\ mintJob' = [mintJob EXCEPT !.mintsForSave = mints, !.fee = fee,
                                              !.calls = @ + 1, !.error = "none"]
                /\ pcCycle' = "mintSend"
             \/ \* FundingError, rethrown as Error('InsufficientFundsError')
                /\ mintJob.amount <= utxoBalance
                /\ mints # <<>>
                /\ SumValues(mints) + fee > utxoBalance
                /\ LET after == AfterMakeMintError(mintJob, "InsufficientFundsError")
                   IN  /\ mintJob' = after.job
                       /\ pcCycle' = IF after.retry THEN "makeMint" ELSE "metaRead"
             \/ \* any other error: 'No outputs available.', the oracle's, or the
                \* core's InsufficientFundsError, whose message is another
                /\ LET after == AfterMakeMintError(mintJob, "Error")
                   IN  /\ mintJob' = after.job
                       /\ pcCycle' = IF after.retry THEN "makeMint" ELSE "metaRead"
    /\ UNCHANGED <<oracleSeed, pureVars, diskVars, looperVars, utxoBalance, mempool,
                   metaData, userVars, storeVars, chainVars, rs, restoreResult>>

\* mutant: a failed send ends the cycle
MintSend_AbortCycle ==
    /\ pcCycle = "mintSend"
    /\ \/ /\ mempool' = Append(mempool,
                          [coins |-> mintJob.mintsForSave, serials |-> <<>>])
          /\ utxoBalance' = utxoBalance - SumValues(mintJob.mintsForSave) - mintJob.fee
          /\ nextTxId' = nextTxId + 1
          /\ pcCycle' = "mintSave"
          /\ UNCHANGED mintJob
       \/ /\ mintJob' = Abandoned(mintJob, "Error")
          /\ pcCycle' = "idle"
          /\ UNCHANGED <<mempool, utxoBalance, nextTxId>>
    /\ UNCHANGED <<oracleSeed, pureVars, diskVars, looperVars, metaData, pcUser,
                   spendJob, storeVars, chainVars, rs, restoreResult>>

\* mutant: the coins are stored before the broadcast is known to have succeeded
MintSend_SaveBeforeSend ==
    /\ pcCycle = "mintSend"
    /\ \/ /\ mempool' = Append(mempool,
                          [coins |-> mintJob.mintsForSave, serials |-> <<>>])
          /\ utxoBalance' = utxoBalance - SumValues(mintJob.mintsForSave) - mintJob.fee
          /\ nextTxId' = nextTxId + 1
          /\ pcCycle' = "mintSave"
          /\ UNCHANGED <<mintJob, mintedCoins>>
       \/ /\ mintJob' = Abandoned(mintJob, "Error")
          /\ mintedCoins' = mintedCoins \o mintJob.mintsForSave
          /\ pcCycle' = "metaRead"
          /\ UNCHANGED <<mempool, utxoBalance, nextTxId>>
    /\ UNCHANGED <<oracleSeed, pureVars, diskVars, looperVars, metaData, pcUser,
                   spendJob, restoreFile, restoreStored, chainVars, rs, restoreResult>>

\* lines 307-310: signTx and broadcastTx of the engine; either may throw
MintSend ==
    /\ pcCycle = "mintSend"
    /\ \/ /\ mempool' = Append(mempool,
                          [coins |-> mintJob.mintsForSave, serials |-> <<>>])
          /\ utxoBalance' = utxoBalance - SumValues(mintJob.mintsForSave) - mintJob.fee
          /\ nextTxId' = nextTxId + 1
          /\ pcCycle' = "mintSave"
          /\ UNCHANGED mintJob
       \/ /\ mintJob' = Abandoned(mintJob, "Error")
          /\ pcCycle' = "metaRead"
          /\ UNCHANGED <<mempool, utxoBalance, nextTxId>>
    /\ UNCHANGED <<oracleSeed, pureVars, diskVars, looperVars, metaData, pcUser, spendJob, storeVars,
                   chainVars, rs, restoreResult>>

\* lines 106-122, 312: saveTx of a mint appends mintsForSave, or fails
MintSave ==
    /\ pcCycle = "mintSave"
    /\ \/ /\ mintedCoins' = mintedCoins \o mintJob.mintsForSave
          /\ mintJob' = NoMintJob
       \/ /\ mintJob' = Abandoned(mintJob, "Error")
          /\ UNCHANGED mintedCoins
    /\ pcCycle' = "metaRead"
    /\ UNCHANGED <<oracleSeed, pureVars, diskVars, looperVars, utxoBalance, mempool, metaData, userVars,
                   restoreFile, restoreStored, chainVars, rs, restoreResult>>

HasCommitment(coins) == \E j \in 1..Len(coins) : coins[j].commitment # EmptyString

\* lines 445-457: mintData is the store's array as it stands now
MetaRead ==
    /\ pcCycle = "metaRead"
    /\ IF HasCommitment(mintedCoins)
       THEN /\ metaData' = Len(mintedCoins)
            /\ pcCycle' = "metaQuery"
       ELSE /\ pcCycle' = "notify"
            /\ UNCHANGED metaData
    /\ UNCHANGED <<oracleSeed, pureVars, diskVars, looperVars, utxoBalance, mempool, mintJob, userVars,
                   storeVars, chainVars, rs, restoreResult>>

ChainEntry(commitment) ==
    CHOOSE k \in 1..Len(chainMints) : chainMints[k].commitment = commitment

OnChain(commitment) ==
    \E k \in 1..Len(chainMints) : chainMints[k].commitment = commitment

\* lines 463-468: the group of a mint that is CONFIRMATIONS deep, -1 otherwise
GroupFor(data) ==
    IF blockHeight - data.height >= CONFIRMATIONS THEN data.group ELSE -1

\* mutant: the group is taken as soon as the mint is mined
GroupFor_NoDepth(data) == data.group

\* lines 449-455: mintsToUpdate[info.commitment] = info; of the coins read
\* that share a commitment, the map keeps the last
InUpdateMap(coins, count, j) ==
    /\ j <= count
    /\ coins[j].commitment # EmptyString
    /\ \A i \in (j + 1)..count :
          i <= Len(coins) => coins[i].commitment # coins[j].commitment

\* mutant: the refresh rewrites the spent mark of the coins it updates
AssignGroups_ResetSpent(coins, count) ==
    [j \in 1..Len(coins) |->
        IF InUpdateMap(coins, count, j) /\ OnChain(coins[j].commitment)
        THEN [coins[j] EXCEPT
                !.groupId = GroupFor(chainMints[ChainEntry(coins[j].commitment)]),
                !.isSpend = FALSE]
        ELSE coins[j]]

\* lines 459-468: the coin the map holds for a mint the chain knows gets its
\* group
AssignGroups(coins, count) ==
    [j \in 1..Len(coins) |->
        IF InUpdateMap(coins, count, j) /\ OnChain(coins[j].commitment)
        THEN [coins[j] EXCEPT
                !.groupId = GroupFor(chainMints[ChainEntry(coins[j].commitment)])]
        ELSE coins[j]]

\* lines 459-469: the query may throw, and loop() with it (its locals are
\* gone); the write may fail
MetaQuery ==
    /\ pcCycle = "metaQuery"
    /\ \/ /\ mintedCoins' = AssignGroups(mintedCoins, metaData)
          /\ pcCycle' \in {"notify", "idle"}
       \/ /\ pcCycle' = "idle"
          /\ UNCHANGED mintedCoins
    /\ metaData' = 0
    /\ mintJob' = IF pcCycle' = "idle" THEN NoMintJob ELSE mintJob
    /\ UNCHANGED <<oracleSeed, pureVars, diskVars, looperVars, utxoBalance, mempool,
                   userVars, restoreFile, restoreStored, chainVars, rs, restoreResult>>

\* lines 160-161: onBalanceChanged(), and loop() returns: its locals are gone
Notify ==
    /\ pcCycle = "notify"
    /\ pcCycle' = "idle"
    /\ mintJob' = NoMintJob
    /\ UNCHANGED <<oracleSeed, pureVars, diskVars, looperVars, utxoBalance, mempool,
                   metaData, userVars, storeVars, chainVars, rs, restoreResult>>

loop == LoopStart \/ restore \/ LoopAfterRestore \/ LoopMint \/ MakeMint
           \/ MintSend \/ MintSave \/ MetaRead \/ MetaQuery \/ Notify

----------------------------------------------------------------------------
(* The user's spend: makeSpend, signTx, broadcastTx, saveTx *)

\* a JavaScript number is falsy exactly when it is 0
Truthy(n) == n # 0

\* mutant: a spent coin passes the filter
IsApproved_IgnoreSpent(info) == Truthy(info.groupId) /\ info.groupId # -1

\* line 495: info.groupId && info.groupId !== -1 && !info.isSpend
IsApproved(info) == Truthy(info.groupId) /\ info.groupId # -1 /\ ~info.isSpend

\* lines 493-498
approvedMints(mintData) == SelectSeq(mintData, IsApproved)

RECURSIVE SumOver(_, _)
SumOver(coins, S) ==
    IF S = {} THEN 0
    ELSE LET k == CHOOSE x \in S : TRUE
         IN  coins[k].value + SumOver(coins, S \ {k})

RECURSIVE PickFrom(_, _, _)
PickFrom(coins, S, k) ==
    IF k > Len(coins) THEN <<>>
    ELSE (IF k \in S THEN <<coins[k]>> ELSE <<>>) \o PickFrom(coins, S, k + 1)

Covering(coins, amount) ==
    {S \in SUBSET (1..Len(coins)) : S # {} /\ SumOver(coins, S) >= amount}

\* getMintsToSpend: what it may return, a covering choice of the fewest coins
\* or nothing when the approved coins do not cover the amount
getMintsToSpend(coins, amount) ==
    LET cov == Covering(coins, amount)
    IN  IF cov = {} THEN {<<>>}
        ELSE {PickFrom(coins, S, 1) :
                S \in {T \in cov : \A U \in cov : Cardinality(T) <= Cardinality(U)}}

\* lines 519-530
SpendCoinsOf(mintsToBeSpend) ==
    [k \in 1..Len(mintsToBeSpend) |->
        [value |-> mintsToBeSpend[k].value, index |-> mintsToBeSpend[k].index,
         groupId |-> mintsToBeSpend[k].groupId]]

\* lines 489-501: what makeSpend reads once it has its targets
SpendReads == {"mintedCoins", "getLastPrivateCoinIndex", "getUTXOs"}
\* lines 333: what makeMint reads once it has its targets
MintReads == {"getUTXOs"}

\* lines 323 and 479: !txOptions.CPFP && (!spendTargets || spendTargets.length < 1)
MissingTargets(spendTargets, CPFP) == CPFP = NoParent /\ Len(spendTargets) < 1

\* mutant: the targets are tested after the reads
Rejected_AfterReads(call) ==
    [NoSpendJob EXCEPT !.result = "Need to provide Spend Targets", !.call = call,
                       !.reads = IF call = "makeSpend" THEN SpendReads ELSE MintReads]

\* lines 323-325 and 479-481: the call throws at once
Rejected(call) ==
    [NoSpendJob EXCEPT !.result = "Need to provide Spend Targets", !.call = call]

\* makeSpend or makeMint called by the user with no spend target and no CPFP
CallWithoutTargets(call) ==
    /\ pcUser = "idle"
    /\ MissingTargets(<<>>, NoParent)
    /\ spendJob' = Rejected(call)
    /\ UNCHANGED <<oracleSeed, pureVars, diskVars, looperVars, loopVars, pcUser,
                   nextTxId, storeVars, chainVars, cycleVars>>

makeSpendWithoutTargets == CallWithoutTargets("makeSpend")

makeMintWithoutTargets == CallWithoutTargets("makeMint")

\* lines 472-631: makeSpend called for one spend target of amount
makeSpend(amount) ==
    /\ pcUser = "idle"
    /\ nextTxId < MaxTx
    /\ \E mintsToBeSpend \in getMintsToSpend(approvedMints(mintedCoins), amount) :
         IF Len(mintsToBeSpend) = 0
         THEN /\ spendJob' = [NoSpendJob EXCEPT !.target = amount,
                                                !.result = "InsufficientFundsError",
                                                !.call = "makeSpend",
                                                !.reads = SpendReads]
              /\ UNCHANGED pcUser
         ELSE \/ \* createSpendTX builds the transaction
                 /\ spendJob' = [NoSpendJob EXCEPT
                                   !.target = amount, !.result = "tx",
                                   !.spendCoins = SpendCoinsOf(mintsToBeSpend),
                                   !.value = amount,
                                   !.currentIndex = getLastPrivateCoinIndex,
                                   !.call = "makeSpend",
                                   !.reads = SpendReads]
                 /\ pcUser' = "spendBuilt"
              \/ \* createSpendTX throws
                 /\ spendJob' = [NoSpendJob EXCEPT !.target = amount,
                                                   !.result = "Error",
                                                   !.call = "makeSpend",
                                                   !.reads = SpendReads]
                 /\ UNCHANGED pcUser
    /\ UNCHANGED <<oracleSeed, pureVars, diskVars, looperVars, loopVars, nextTxId, storeVars, chainVars,
                   cycleVars>>

UserMakeSpend == \E amount \in SpendAmounts : makeSpend(amount)

\* signSpendTX: the overshoot of the selection becomes new minted coins
ChangeCoins(job) ==
    AsMinted(getMintCommitmentsForValue(SumValues(job.spendCoins) - job.value,
                                        DataKey, job.currentIndex))

\* mutant: the failed call hands back what it had computed so far
SignFailure_PartlySigned(job) ==
    [job EXCEPT !.result = "Error", !.call = "signTx",
                !.mintsForSave = ChangeCoins(job), !.txid = nextTxId + 1]

\* mutant: the failed call resolves with nothing, as for a non-spend
SignFailure_Swallowed(job) == [NoSpendJob EXCEPT !.call = "signTx"]

\* lines 642-668: retrieveAnonymitySet or signSpendTX throws for one of the
\* coins; spends is a local array and nothing is returned
SignFailure(job) == [NoSpendJob EXCEPT !.result = "Error", !.call = "signTx"]

\* mutant: signing stores the change coins it derived
signTx_StoresChange ==
    /\ pcUser = "spendBuilt"
    /\ \/ /\ spendJob' = [spendJob EXCEPT !.mintsForSave = ChangeCoins(spendJob),
                                          !.txid = nextTxId + 1,
                                          !.call = "signTx"]
          /\ mintedCoins' = mintedCoins \o ChangeCoins(spendJob)
          /\ pcUser' = "spendSigned"
       \/ /\ \E failing \in 1..Len(spendJob.spendCoins) :
                spendJob' = SignFailure(spendJob)
          /\ pcUser' = "idle"
          /\ UNCHANGED mintedCoins
    /\ UNCHANGED <<oracleSeed, pureVars, diskVars, looperVars, loopVars, nextTxId,
                   restoreFile, restoreStored, chainVars, cycleVars>>

\* lines 633-682: the anonymity sets are fetched coin by coin and the oracle
\* proves; either may throw
signTx ==
    /\ pcUser = "spendBuilt"
    /\ \/ /\ spendJob' = [spendJob EXCEPT !.mintsForSave = ChangeCoins(spendJob),
                                          !.txid = nextTxId + 1,
                                          !.call = "signTx"]
          /\ pcUser' = "spendSigned"
       \/ /\ \E failing \in 1..Len(spendJob.spendCoins) :
                spendJob' = SignFailure(spendJob)
          /\ pcUser' = "idle"
    /\ UNCHANGED <<oracleSeed, pureVars, diskVars, looperVars, loopVars, nextTxId, storeVars, chainVars,
                   cycleVars>>

SpentSerials(spendCoins) ==
    [k \in 1..Len(spendCoins) |->
        createPrivateCoin(spendCoins[k].value, DataKey, spendCoins[k].index).serialNumber]

\* broadcastTx of the engine
UserBroadcast ==
    /\ pcUser = "spendSigned"
    /\ \/ /\ mempool' = Append(mempool,
                          [coins |-> spendJob.mintsForSave,
                           serials |-> SpentSerials(spendJob.spendCoins)])
          /\ nextTxId' = nextTxId + 1
          /\ pcUser' = "spendSent"
          /\ UNCHANGED spendJob
       \/ /\ spendJob' = [NoSpendJob EXCEPT !.result = "Error"]
          /\ pcUser' = "idle"
          /\ UNCHANGED <<mempool, nextTxId>>
    /\ UNCHANGED <<oracleSeed, pureVars, diskVars, looperVars, utxoBalance, mintJob, metaData, storeVars,
                   chainVars, cycleVars>>

\* updateSpendCoins: the coins a spend references are marked spent
MarkSpent(coins, spendCoins, txid) ==
    [j \in 1..Len(coins) |->
        IF \E k \in 1..Len(spendCoins) : spendCoins[k].index = coins[j].index
        THEN [coins[j] EXCEPT !.isSpend = TRUE, !.spendTxId = <<txid>>]
        ELSE coins[j]]

\* lines 117: appendMintedCoins(mintsForSave), or it fails and saveTx with it
UserSaveAppend ==
    /\ pcUser = "spendSent"
    /\ \/ /\ mintedCoins' = mintedCoins \o spendJob.mintsForSave
          /\ pcUser' = "spendSaved"
          /\ UNCHANGED spendJob
       \/ /\ spendJob' = [NoSpendJob EXCEPT !.result = "Error"]
          /\ pcUser' = "idle"
          /\ UNCHANGED mintedCoins
    /\ UNCHANGED <<oracleSeed, pureVars, diskVars, looperVars, loopVars, nextTxId, restoreFile,
                   restoreStored, chainVars, cycleVars>>

\* lines 118-121: updateSpendCoins(spendCoins, txid), or it fails
UserSaveUpdate ==
    /\ pcUser = "spendSaved"
    /\ \/ /\ mintedCoins' = MarkSpent(mintedCoins, spendJob.spendCoins, spendJob.txid)
          /\ savedSpendTransactionValues' =
                {p \in savedSpendTransactionValues : p[1] # spendJob.txid}
                \cup {<<spendJob.txid, spendJob.value>>}
          /\ spendJob' = [NoSpendJob EXCEPT !.result = "saved"]
       \/ /\ spendJob' = [NoSpendJob EXCEPT !.result = "Error"]
          /\ UNCHANGED <<mintedCoins, savedSpendTransactionValues>>
    /\ pcUser' = "idle"
    /\ UNCHANGED <<oracleSeed, pureVars, readFaults, looperVars, loopVars, nextTxId,
                   restoreFile, restoreStored, chainVars, cycleVars>>

spend == UserMakeSpend \/ signTx \/ UserBroadcast \/ UserSaveAppend \/ UserSaveUpdate

----------------------------------------------------------------------------
(* The chain *)

\* transparent funds arrive
Deposit ==
    /\ utxoBalance = 0
    /\ mempool = <<>>
    /\ nextTxId < MaxFundedTx
    /\ \E a \in DepositAmounts : utxoBalance' = a
    /\ UNCHANGED <<oracleSeed, pureVars, diskVars, looperVars, mempool, mintJob, metaData, userVars,
                   storeVars, chainVars, cycleVars>>

RECURSIVE MinedCoins(_, _, _)
MinedCoins(txs, group, height) ==
    IF txs = <<>> THEN <<>>
    ELSE [k \in 1..Len(txs[1].coins) |->
            [commitment |-> txs[1].coins[k].commitment,
             denom |-> txs[1].coins[k].value, group |-> group, height |-> height]]
         \o MinedCoins(Tail(txs), group, height)

RECURSIVE MinedSerials(_)
MinedSerials(txs) ==
    IF txs = <<>> THEN <<>> ELSE txs[1].serials \o MinedSerials(Tail(txs))

\* a block is mined; it may take the broadcast transactions
NewBlock ==
    /\ blockHeight < MaxHeight
    /\ blockHeight' = blockHeight + 1
    /\ \/ /\ mempool # <<>>
          /\ \E g \in ChainGroups :
                chainMints' = chainMints \o MinedCoins(mempool, g, blockHeight + 1)
          /\ usedSerials' = usedSerials \o MinedSerials(mempool)
          /\ mempool' = <<>>
       \/ UNCHANGED <<chainMints, usedSerials, mempool>>
    /\ UNCHANGED <<oracleSeed, pureVars, diskVars, looperVars, utxoBalance, mintJob, metaData, userVars,
                   storeVars, foreignCount, latestGroup, priorMints, cycleVars>>

Next == loop \/ spend \/ Deposit \/ NewBlock

Spec == InitWallet /\ [][Next]_vars

\* a wallet that lost its store, is restored, and is spent from while no
\* block is mined: its spends stay unconfirmed
InitRecover ==
    /\ InitRestore
    /\ blockHeight = CONFIRMATIONS
    /\ foreignCount = 0
    /\ readFaults = 0
    /\ latestGroup = 1
    /\ Len(priorMints) <= 2
    /\ usedSerials = <<>>

NextRecover == CallRestore \/ restore \/ RestoreReturn \/ spend

SpecRecover == InitRecover /\ [][NextRecover]_vars

\* a restored wallet whose coins have their groups, used by its user while no
\* cycle runs and no block is mined
InitUser ==
    /\ oracleSeed = 1
    /\ mintCall = [value |-> 0, privateKey |-> DataKey, currentIndex |-> 0,
                   done |-> TRUE, result |-> <<>>]
    /\ coinLog = <<>>
    /\ txCall = NoTxCall
    /\ blockHeight = CONFIRMATIONS
    /\ foreignCount = 0
    /\ latestGroup = 1
    /\ usedSerials = <<>>
    /\ \E n \in 0..MaxPriorMints :
         \E amounts \in [1..n -> PriorAmounts],
            groupOf \in [1..n -> {0, 1}] :
            /\ priorMints = PriorStore(amounts)
            /\ chainMints = PriorPublished(amounts, groupOf)
    /\ Len(priorMints) <= 2
    /\ mintedCoins = AssignGroups(priorMints, Len(priorMints))
    /\ restoreFile = TRUE
    /\ restoreStored = TRUE
    /\ pcCycle = "idle"
    /\ rs = NoLocals
    /\ restoreResult = "none"
    /\ NoJobs
    /\ readFaults = 0

NextUser == spend \/ makeSpendWithoutTargets \/ makeMintWithoutTargets

SpecUser == InitUser /\ [][NextUser]_vars

----------------------------------------------------------------------------
(* mint() called by a cycle of a restored wallet with an empty store *)

\* the transparent balance loop() finds
MintBalances == {4, 5, 6, 7, 10, 11, 12, 16, 17, 21, 60, 65}

\* restore() has returned true and loop() is about to test the balance
InitMint ==
    /\ oracleSeed = 1
    /\ mintCall = [value |-> 0, privateKey |-> DataKey, currentIndex |-> 0,
                   done |-> TRUE, result |-> <<>>]
    /\ coinLog = <<>>
    /\ txCall = NoTxCall
    /\ mintedCoins = <<>>
    /\ restoreFile = TRUE
    /\ restoreStored = TRUE
    /\ blockHeight = 0
    /\ chainMints = <<>>
    /\ foreignCount = 0
    /\ latestGroup = 1
    /\ usedSerials = <<>>
    /\ priorMints = <<>>
    /\ pcCycle = "loopMint"
    /\ rs = NoLocals
    /\ restoreResult = "true"
    /\ utxoBalance \in MintBalances
    /\ mempool = <<>>
    /\ mintJob = NoMintJob
    /\ metaData = 0
    /\ pcUser = "idle"
    /\ spendJob = NoSpendJob
    /\ nextTxId = 0
    /\ savedSpendTransactionValues = {}
    /\ NoLooper
    /\ readFaults = 0

NextMint == LoopMint \/ MakeMint \/ MintSend \/ MintSave

\* every makeMint call settles: it returns a transaction or throws
SpecMint == InitMint /\ [][NextMint]_vars /\ WF_vars(MakeMint)

----------------------------------------------------------------------------
(* The metadata refresh of a wallet that minted and spent after its restore *)

\* the amounts minted before the restore, after it, and left over by a spend
RefreshPrior == {0, 10, 60}
RefreshMints == {0, 5, 15}
RefreshChange == {0, 5, 10}

\* the block the later mint was mined in
MintHeight == 1

\* The restored coins are CONFIRMATIONS deep in group 1.  A later mint was
\* mined at MintHeight; a spend built before that mint was saved derived its
\* change coins from the same index (makeSpend line 490) and is still in the
\* mempool.  The cycle has passed restore() and has nothing to mint.
InitRefresh ==
    /\ oracleSeed = 1
    /\ mintCall = [value |-> 0, privateKey |-> DataKey, currentIndex |-> 0,
                   done |-> TRUE, result |-> <<>>]
    /\ coinLog = <<>>
    /\ txCall = NoTxCall
    /\ blockHeight = CONFIRMATIONS
    /\ foreignCount = 0
    /\ latestGroup = 1
    /\ usedSerials = <<>>
    /\ \E a \in RefreshPrior, b \in RefreshMints, c \in RefreshChange,
          changeLast \in BOOLEAN :
          LET prior  == PriorStore(<<a>>)
              top    == MaxIndexOf(prior)
              minted == MintsForTarget(b, top)
              change == AsMinted(getMintCommitmentsForValue(c, DataKey, top))
              sent   == (IF minted = <<>> THEN 0 ELSE 1)
                           + (IF change = <<>> THEN 0 ELSE 1)
              stored == [j \in 1..Len(prior) |-> [prior[j] EXCEPT !.groupId = 1]]
          IN  /\ change # <<>> => (prior # <<>> /\ c < prior[1].value)
              /\ priorMints = prior
              /\ chainMints = PriorPublished(<<a>>, <<1>>)
                                 \o [k \in 1..Len(minted) |->
                                       [commitment |-> minted[k].commitment,
                                        denom |-> minted[k].value,
                                        group |-> 1, height |-> MintHeight]]
              /\ mempool = IF change = <<>> THEN <<>>
                           ELSE <<[coins |-> change,
                                   serials |-> <<prior[1].serialNumber>>]>>
              /\ mintedCoins =
                    (IF change = <<>> THEN stored
                     ELSE MarkSpent(stored, <<[index |-> prior[1].index]>>, sent))
                    \o (IF changeLast THEN minted \o change ELSE change \o minted)
              /\ savedSpendTransactionValues =
                    IF change = <<>> THEN {} ELSE {<<sent, prior[1].value - c>>}
              /\ nextTxId = sent
    /\ restoreFile = TRUE
    /\ restoreStored = TRUE
    /\ pcCycle = "loopMint"
    /\ rs = NoLocals
    /\ restoreResult = "true"
    /\ utxoBalance = 0
    /\ mintJob = NoMintJob
    /\ metaData = 0
    /\ pcUser = "idle"
    /\ spendJob = NoSpendJob
    /\ NoLooper
    /\ readFaults = 0

NextRefresh == LoopMint \/ MetaRead \/ MetaQuery \/ Notify \/ NewBlock

SpecRefresh == InitRefresh /\ [][NextRefresh]_vars

----------------------------------------------------------------------------
(* The periodic coordinator: load, killEngine, the timer and the loop() calls *)

\* addLooperMethodToLoop calls and armed timers the model follows at once
MaxChains == 3

nonLooperVars == <<oracleSeed, pureVars, storeVars, chainVars, cycleVars, loopVars,
                   userVars, diskVars>>

\* loop() calls that have not settled
InFlight == looper["restore"] + looper["mint"] + looper["refresh"]

Settled == looper["resolved"] + looper["rejected"]

Move(from, to) == [looper EXCEPT ![from] = @ - 1, ![to] = @ + 1]

\* lines 255-259: addLooperMethodToLoop calls loop(), which runs up to the first
\* await of restore()
StartLoop == [looper EXCEPT !["restore"] = @ + 1]

\* lines 243-246
runLooperIfNeed ==
    /\ canRunLoop' = TRUE
    /\ looper' = StartLoop
    /\ UNCHANGED <<timers, unhandled>>

\* lines 57-68: load() ends with runLooperIfNeed()
load ==
    /\ InFlight + Settled + timers < MaxChains
    /\ runLooperIfNeed
    /\ UNCHANGED nonLooperVars

\* lines 248-253: this.looperMethods is never assigned an object, the for-in
\* over undefined has no iterations and no timer is cleared
cancelAllLooperMethods ==
    /\ canRunLoop' = FALSE
    /\ UNCHANGED <<timers, looper, unhandled>>

\* lines 76-78
killEngine ==
    /\ canRunLoop
    /\ cancelAllLooperMethods
    /\ UNCHANGED nonLooperVars

\* mutant: the timer's callback does not test the flag
TimerFires_NoFlagTest ==
    /\ timers > 0
    /\ timers' = timers - 1
    /\ looper' = StartLoop
    /\ UNCHANGED <<canRunLoop, unhandled>>
    /\ UNCHANGED nonLooperVars

\* lines 262-266: the callback of setTimeout
TimerFires ==
    /\ timers > 0
    /\ timers' = timers - 1
    /\ looper' = IF canRunLoop THEN StartLoop ELSE looper
    /\ UNCHANGED <<canRunLoop, unhandled>>
    /\ UNCHANGED nonLooperVars

\* lines 127-156: restore() settles; loop() goes on to mint() or, with nothing
\* to mint, to getMintMetadataLoop(), returns on false and rejects on a throw
LoopRestoreSettles ==
    /\ looper["restore"] > 0
    /\ \E to \in {"mint", "refresh", "resolved", "rejected"} :
          looper' = Move("restore", to)
    /\ UNCHANGED <<canRunLoop, timers, unhandled>>
    /\ UNCHANGED nonLooperVars

\* lines 156-158: mint() catches what its steps throw and resolves
LoopMintSettles ==
    /\ looper["mint"] > 0
    /\ looper' = Move("mint", "refresh")
    /\ UNCHANGED <<canRunLoop, timers, unhandled>>
    /\ UNCHANGED nonLooperVars

\* lines 158-161: getMintMetadataLoop() settles and onBalanceChanged() runs;
\* if either throws loop() rejects
LoopRefreshSettles ==
    /\ looper["refresh"] > 0
    /\ \E to \in {"resolved", "rejected"} : looper' = Move("refresh", to)
    /\ UNCHANGED <<canRunLoop, timers, unhandled>>
    /\ UNCHANGED nonLooperVars

\* mutant: the timer is armed whatever the flag says
AddLooperSettles_AlwaysArm ==
    /\ \E how \in {"resolved", "rejected"} :
          /\ looper[how] > 0
          /\ looper' = [looper EXCEPT ![how] = @ - 1]
    /\ timers' = timers + 1
    /\ UNCHANGED <<canRunLoop, unhandled>>
    /\ UNCHANGED nonLooperVars

\* lines 257-269: the catch swallows a rejected loop(); then, if canRunLoop,
\* this.looperMethods[looperMethod] = setTimeout(...) is evaluated with
\* this.looperMethods undefined. The assignment throws a TypeError, after the
\* call of setTimeout where the engine evaluates the right-hand side first and
\* before it where the engine tests the target first; the promise of
\* addLooperMethodToLoop is rejected and nobody awaits it
AddLooperSettles ==
    /\ \E how \in {"resolved", "rejected"} :
          /\ looper[how] > 0
          /\ looper' = [looper EXCEPT ![how] = @ - 1]
    /\ IF canRunLoop
       THEN /\ timers' \in {timers + 1, timers}
            /\ unhandled' = TRUE
       ELSE UNCHANGED <<timers, unhandled>>
    /\ UNCHANGED canRunLoop
    /\ UNCHANGED nonLooperVars

NextLooper == load \/ killEngine \/ TimerFires \/ LoopRestoreSettles
                 \/ LoopMintSettles \/ LoopRefreshSettles \/ AddLooperSettles

SpecLooper == InitWallet /\ [][NextLooper]_vars

----------------------------------------------------------------------------
(* Properties of getMintCommitmentsForValue and createPrivateCoin *)

Remainder == mintCall.value - SumValues(mintCall.result)

\* C1: the returned coins sum to value - remainder with
\* 0 <= remainder < smallest denomination, and every coin's value is a
\* denomination of the ladder.
C1_SumAndLadder ==
    mintCall.done =>
        /\ Remainder >= 0
        /\ Remainder < denominations[1]
        /\ \A k \in 1..Len(mintCall.result) :
              mintCall.result[k].value \in DenominationSet

C1_Witness ==
    /\ mintCall.done
    /\ Len(mintCall.result) >= 3
    /\ Remainder > 0

\* C2: one derivation index per returned coin: the k-th returned coin has index
\* start + k, so the indexes are distinct, consecutive and increasing and n
\* coins advance the index by n.
C2_OneIndexPerCoin ==
    mintCall.done =>
        \A k \in 1..Len(mintCall.result) :
            mintCall.result[k].index = mintCall.currentIndex + k

C2_Witness ==
    /\ mintCall.done
    /\ Len(mintCall.result) >= 4
    /\ \E k \in 2..Len(mintCall.result) :
          mintCall.result[k].value = mintCall.result[k - 1].value

\* C3: greedy decomposition from the largest denomination down: values are
\* non-increasing in list order and the number of coins of denomination d is
\* floor(r / d), r being what is left after the larger denominations; 150
\* (150000000 satoshi) gives one 100 coin followed by one 50 coin.
C3_Greedy ==
    mintCall.done =>
        /\ \A k \in 2..Len(mintCall.result) :
              mintCall.result[k].value <= mintCall.result[k - 1].value
        /\ \A i \in 1..Len(denominations) :
              CountOf(mintCall.result, denominations[i])
                = LeftAt(i, mintCall.value) \div denominations[i]
        /\ mintCall.value = 150 =>
              /\ Len(mintCall.result) = 2
              /\ mintCall.result[1].value = 100
              /\ mintCall.result[2].value = 50

C3_Witness ==
    /\ mintCall.done
    /\ mintCall.value = 150
    /\ Len(mintCall.result) = 2

----------------------------------------------------------------------------
(* Properties of the coin store's groupId and of makeSpend *)

\* the confirmations of a commitment now; the chain only grows, so they are at
\* least the confirmations it had when a groupId was assigned
DepthOf(commitment) == blockHeight - chainMints[ChainEntry(commitment)].height

\* C5: in every reachable state of the coin store, a coin's groupId is other
\* than -1 only if the coin was mined and currentHeight - mintHeight >= 5 held
\* when the value was assigned.
C5_GroupOnlyAfterDepth ==
    \A j \in 1..Len(mintedCoins) :
        mintedCoins[j].groupId # -1
           => /\ OnChain(mintedCoins[j].commitment)
              /\ DepthOf(mintedCoins[j].commitment) >= CONFIRMATIONS

\* the step in which makeSpend returns or throws
MakeSpendStep == pcUser = "idle" /\ spendJob' # spendJob

NotPendingUnspent(info) == info.groupId # -1 /\ ~info.isSpend

\* C6: the approved coins makeSpend hands to coin selection are exactly the
\* stored coins with groupId != -1 and isSpend = false, the unspent coins of
\* any groupId >= 0 among them.
C6_ApprovedIsNotPendingUnspent ==
    [][MakeSpendStep
          => approvedMints(mintedCoins) = SelectSeq(mintedCoins, NotPendingUnspent)]_vars

\* C7: a spend transaction built by makeSpend never references a coin that is
\* spent or has groupId -1, and never references coins summing to less than
\* the target amount; when selection returns no coins makeSpend fails with
\* InsufficientFunds and builds no transaction.
C7_SpendReferencesApprovedAndCovers ==
    [][MakeSpendStep
          => /\ \A k \in 1..Len(spendJob'.spendCoins) :
                   \E j \in 1..Len(mintedCoins) :
                      /\ mintedCoins[j].index = spendJob'.spendCoins[k].index
                      /\ mintedCoins[j].value = spendJob'.spendCoins[k].value
                      /\ mintedCoins[j].groupId = spendJob'.spendCoins[k].groupId
                      /\ ~mintedCoins[j].isSpend
                      /\ mintedCoins[j].groupId # -1
             /\ spendJob'.result = "tx"
                   => /\ spendJob'.spendCoins # <<>>
                      /\ SumValues(spendJob'.spendCoins) >= spendJob'.target
             /\ getMintsToSpend(approvedMints(mintedCoins), spendJob'.target) = {<<>>}
                   => /\ spendJob'.result = "InsufficientFundsError"
                      /\ spendJob'.spendCoins = <<>>
                      /\ pcUser' = "idle"]_vars

\* a spend was built while the store held a spent coin and a pending one
C7_Witness ==
    /\ pcUser = "spendBuilt"
    /\ spendJob.result = "tx"
    /\ \E j \in 1..Len(mintedCoins) : mintedCoins[j].isSpend
    /\ \E j \in 1..Len(mintedCoins) : mintedCoins[j].groupId = -1

\* makeSpend refused for want of funds while a spent coin covered the amount
C7_WitnessRefused ==
    /\ pcUser = "idle"
    /\ spendJob.result = "InsufficientFundsError"
    /\ \E j \in 1..Len(mintedCoins) :
          mintedCoins[j].isSpend /\ mintedCoins[j].value >= spendJob.target

----------------------------------------------------------------------------
(* Properties of restore() *)

RestoredRecordOf(coin) ==
    {j \in 1..Len(mintedCoins) :
        /\ mintedCoins[j].index = coin.index
        /\ mintedCoins[j].value = coin.value
        /\ mintedCoins[j].commitment = coin.commitment
        /\ mintedCoins[j].isSpend = Includes(usedSerials, coin.serialNumber)}

\* C8: after a restore that began with an empty store, the store holds one
\* record for every previously minted coin whose commitment is published, with
\* that coin's value, index and commitment and isSpend as the used serials say,
\* and no other record.
C8_RestoreReproducesMints ==
    (pcCycle = "restoreDone" /\ restoreResult = "true") =>
        /\ \A k \in 1..Len(priorMints) :
              IsPublished(priorMints[k])
                 => Cardinality(RestoredRecordOf(priorMints[k])) = 1
        /\ \A j \in 1..Len(mintedCoins) :
              \E k \in 1..Len(priorMints) :
                 /\ IsPublished(priorMints[k])
                 /\ j \in RestoredRecordOf(priorMints[k])

\* the scan has ended: the consecutive misses counted and the last index derived
MissesAtExit == rs.counter - 1
LastScanned == IF rs.counter > MISS_LIMIT THEN rs.index ELSE rs.index - 1

C10_MarkerAfterPersist ==
    [][/\ restoreFile => restoreStored
       /\ pcCycle = "restoreMark" => (restoreStored /\ mintedCoins = rs.mintData)
       /\ (~restoreFile /\ restoreFile')
             => /\ pcCycle = "restoreMark"
                /\ restoreStored /\ mintedCoins = rs.mintData
                /\ restoreResult' = "true"
       /\ (restoreResult' \in {"false", "throw"} /\ restoreResult = "none")
             => restoreFile' = restoreFile
       /\ (pcCycle = "restore" /\ ~restoreFile) => pcCycle' = "restoreQuery"]_vars

\* a restore stored the rebuilt set and failed to write the marker: the next
\* call scans again
C10_WitnessRetry ==
    /\ pcCycle = "restoreScan"
    /\ restoreStored
    /\ Len(mintedCoins) > 0
    /\ ~restoreFile

\* C11: restore is performed once per wallet: once the marker is present a
\* call of restore returns true at once, without a chain query or an oracle
\* call, and leaves the coin store as it is; restore overwrites the coin store
\* only while no marker is present.
C11_RestoredOnce ==
    [][/\ (pcCycle = "restore" /\ restoreFile)
             => /\ pcCycle' = "restoreDone"
                /\ restoreResult' = "true"
                /\ mintedCoins' = mintedCoins
       /\ pcCycle \in {"restoreQuery", "restoreScan", "restoreWrite", "restoreMark"}
             => ~restoreFile]_vars

----------------------------------------------------------------------------
(* Properties of the periodic coordinator *)

\* C12: at most one periodic cycle is in flight at any time, and a timer for
\* the next cycle is armed only when no cycle is in flight, for every sequence
\* of load, killEngine and timer events.
C12_OneCycleInFlight ==
    /\ InFlight <= 1
    /\ timers > 0 => InFlight = 0

\* C13: while the stop flag stays set no new cycle starts, a timer that fires
\* starts none and a call that settles arms no timer; setting the flag leaves
\* the cycles in flight as they are, and they go on through their steps.
C13_StopPreventsNewCycles ==
    [][/\ (~canRunLoop /\ ~canRunLoop')
             => /\ looper'["restore"] <= looper["restore"]
                /\ timers' <= timers
                /\ InFlight' + Settled' <= InFlight + Settled
       /\ (canRunLoop /\ ~canRunLoop')
             => (looper' = looper /\ timers' = timers)]_vars

\* the flag was set while a timer was armed and a cycle was in flight, and the
\* cycle has reached its metadata refresh
C13_Witness ==
    /\ ~canRunLoop
    /\ timers > 0
    /\ looper["refresh"] > 0

C15_AtMostTwoCalls == mintJob.calls <= 2

\* C15: when makeMint reports insufficient funds, mint calls it again with the
\* amount reduced by the smallest denomination as long as the amount that
\* failed exceeds the smallest denomination, however many calls that takes;
\* once it does not, the mint is abandoned and the cycle goes on to the refresh.
C15_RetryWhileAboveSmallest ==
    [][(/\ pcCycle = "makeMint"
        /\ mintJob' # mintJob
        /\ mintJob'.error = "InsufficientFundsError")
       => IF mintJob.amount > denominations[1]
          THEN /\ pcCycle' = "makeMint"
               /\ mintJob'.amount = mintJob.amount - denominations[1]
               /\ mintJob'.amount >= 1
               /\ mintJob'.calls = mintJob.calls + 1
          ELSE /\ pcCycle' = "metaRead"
               /\ mintJob'.mintsForSave = <<>>]_vars

\* the third makeMint call of one mint invocation was made
C15_Witness == mintJob.calls = 3

\* C16 (as claimed): after a mint step failed with an error other than
\* insufficient funds, the refresh and the notification of that cycle do not run.
C16_RestOfCycleSkipped ==
    mintJob.error = "Error" => pcCycle \notin {"metaQuery", "notify"}

\* C16: a mint step that fails with an error other than insufficient funds ends
\* the mint without retry, makeMint is not called again in that cycle, and the
\* cycle goes on with the group-metadata refresh and the notification.
C16_AbandonsMintNotCycle ==
    [][/\ mintJob'.error = "Error"
          => pcCycle' \in {"metaRead", "metaQuery", "notify"}
       /\ (mintJob'.error = "Error" /\ mintJob.error # "Error")
          => /\ pcCycle \in {"makeMint", "mintSend", "mintSave"}
             /\ pcCycle' = "metaRead"
             /\ mintJob'.mintsForSave = <<>>
       /\ mintJob.error = "Error"
          => mintJob'.calls <= mintJob.calls]_vars

\* the refresh ran and the notification is next, after the mint failed
C16_Witness == pcCycle = "notify" /\ mintJob.error = "Error"

\* the largest multiple of the smallest denomination strictly less than B
LargestMultipleBelow(B) ==
    IF B % denominations[1] = 0
    THEN B - denominations[1]
    ELSE (B \div denominations[1]) * denominations[1]

\* C17: no mint is attempted when the balance B is at most the smallest
\* denomination d; when B > d the coins of the first attempt are worth the
\* largest multiple of d strictly less than B, leaving 1..d units for the fee.
C17_FirstAttemptLeavesFee ==
    /\ pcCycle \in {"makeMint", "mintSend"} => utxoBalance > denominations[1]
    /\ (pcCycle = "makeMint" /\ mintJob.calls = 0)
       => LET total == SumValues(MintsForTarget(mintJob.amount,
                                                getLastPrivateCoinIndex))
          IN  /\ total = LargestMultipleBelow(utxoBalance)
              /\ utxoBalance - total \in 1..denominations[1]

\* a first attempt on a balance the smallest denomination divides
C17_Witness ==
    /\ pcCycle = "makeMint"
    /\ mintJob.calls = 0
    /\ utxoBalance % denominations[1] = 0

\* a cycle that found a positive balance too small to mint
C17_WitnessTooSmall ==
    /\ pcCycle = "metaRead"
    /\ mintJob = NoMintJob
    /\ utxoBalance \in 1..denominations[1]

\* the commitments the store holds a spent record of
SpentIn(coins) ==
    {coins[j].commitment : j \in {k \in 1..Len(coins) : coins[k].isSpend}}

\* the commitments the store holds unspent records of, and no spent one
UnspentIn(coins) ==
    {coins[j].commitment : j \in 1..Len(coins)} \ SpentIn(coins)

\* C19: a coin whose record in the store has isSpend = true is not recorded
\* there with isSpend = false after any step of a mint, a saveTx, a refresh
\* or a restore.
C19_IsSpendMonotonic ==
    [][SpentIn(mintedCoins) \cap UnspentIn(mintedCoins') = {}]_vars

\* the commitments of the coins a list of broadcast transactions creates
RECURSIVE CommitmentsOfTxs(_)
CommitmentsOfTxs(txs) ==
    IF txs = <<>> THEN {}
    ELSE {txs[1].coins[k].commitment : k \in 1..Len(txs[1].coins)}
         \cup CommitmentsOfTxs(Tail(txs))

\* the coins of the wallet that exist: stored, broadcast or mined; a
\* commitment depends on the key and the index only, so it stands for the index
CreatedCommitments ==
    {mintedCoins[j].commitment : j \in 1..Len(mintedCoins)}
    \cup CommitmentsOfTxs(mempool)
    \cup {chainMints[k].commitment : k \in 1..Len(chainMints)}

\* C20: the coins of a transaction makeMint returns have indexes that no coin
\* the wallet created before has.
C20_IndexesNeverReused ==
    pcCycle = "mintSend"
    => \A k \in 1..Len(mintJob.mintsForSave) :
          mintJob.mintsForSave[k].commitment \notin CreatedCommitments

\* C18: restore never runs while the mint or the metadata refresh of the loop
\* runs, and mint and refresh are started only after the restore of their own
\* cycle has returned true.
C18_RestoreGatesMint ==
    /\ looper["restore"] > 0 => (looper["mint"] = 0 /\ looper["refresh"] = 0)
    /\ pcCycle \in {"loopMint", "makeMint", "mintSend", "mintSave", "metaRead",
                    "metaQuery", "notify"} => restoreResult = "true"


\* the cycle has read what it will write back: restore() the chain's sets,
\* getMintMetadataLoop() the coin set
CycleHoldsCoinSet == pcCycle \in {"restoreScan", "restoreWrite", "metaQuery"}

\* C21: while a cycle's restore or metadata refresh is between its read and
\* its write of the coin set, no step of a user's saveTx changes the coin store.
C21_NoSaveInsideCycleWindow ==
    [][(CycleHoldsCoinSet /\ pcUser' # pcUser) => mintedCoins' = mintedCoins]_vars

\* the call was made in CPFP mode with candidates and nothing else to pay
CpfpBuilt ==
    /\ txCall.done
    /\ txCall.args.CPFP # NoParent
    /\ txCall.args.outputs = <<>>

\* the values of a list of unspent outputs, and the largest of them
ValuesOf(utxos) == {utxos[k].value : k \in 1..Len(utxos)}
LargestOf(values) == CHOOSE v \in values : \A w \in values : w <= v

\* the unspent outputs of the parent among those the caller passed
ParentOutputs == SelectSeq(txCall.args.utxos, LAMBDA u : u.txid = txCall.args.CPFP)

\* C22: with CPFPlimit = 1 and two candidate outputs of the parent, createTX
\* keeps only the candidate of the largest value.
C22_KeepsLargestCandidate ==
    (CpfpBuilt /\ txCall.args.CPFPlimit = 1 /\ Len(ParentOutputs) = 2)
    => /\ Len(txCall.result.kept) = 1
       /\ txCall.result.kept[1].value = LargestOf(ValuesOf(ParentOutputs))

C23_WitnessUnbounded ==
    /\ CpfpBuilt
    /\ txCall.args.CPFPlimit = 0
    /\ txCall.result.error = ""
    /\ Len(txCall.result.kept) = 2

\* C24: createTX called with no outputs and no CPFP parent fails with the
\* no-outputs error, having added no output to the transaction and not
\* having called the funder.
C24_RejectsZeroOutputs ==
    (/\ txCall.done
     /\ txCall.args.outputs = <<>>
     /\ txCall.args.CPFP = NoParent)
    => /\ txCall.result.error = "No outputs available."
       /\ txCall.result.outputsAdded = 0
       /\ ~txCall.result.fundCalled
       /\ txCall.result.inputs = <<>>
       /\ txCall.result.outputs = <<>>

\* an empty build was asked for with funds at hand
C24_Witness ==
    /\ txCall.done
    /\ txCall.args.outputs = <<>>
    /\ txCall.args.CPFP = NoParent
    /\ Len(txCall.args.utxos) = 2

\* C26: with setRBF every input of the transaction createTX returns has a
\* sequence number below the final sequence number 0xffffffff.
C26_RbfInputsReplaceable ==
    (txCall.done /\ txCall.args.setRBF /\ txCall.result.error = "")
    => \A k \in 1..Len(txCall.result.inputs) :
          /\ Less32(txCall.result.inputs[k].sequence, <<65535, 65535>>)
          /\ txCall.result.inputs[k].sequence = <<65535, 65533>>

\* a replaceable transaction with two inputs
C26_Witness ==
    /\ txCall.done
    /\ txCall.args.setRBF
    /\ txCall.result.error = ""
    /\ Len(txCall.result.inputs) = 2

\* an input that spends a coinbase output too young for the height
Immature(coin, height) ==
    coin.coinbase /\ height - coin.height < COINBASE_MATURITY

\* C27: a transaction createTX returns for a given height has only inputs that
\* verify at that height; when the funded inputs do not, the call fails with the
\* context-check error, and without a height (-1) it never does.
C27_ContextCheck ==
    txCall.done
    => /\ (txCall.result.error = "" /\ txCall.args.height # -1)
          => \A k \in 1..Len(txCall.result.inputs) :
                ~Immature(txCall.result.inputs[k].coin, txCall.args.height)
       /\ txCall.result.error = "TX failed context check."
          => /\ txCall.args.height # -1
             /\ txCall.result.fundCalled
             /\ \E k \in 1..Len(txCall.result.kept) :
                   Immature(txCall.result.kept[k], txCall.args.height)

\* the funded inputs did not verify at the height given
C27_Witness ==
    /\ txCall.done
    /\ txCall.result.error = "TX failed context check."

\* without a height a transaction spending a young coinbase output is returned
C27_WitnessSkipped ==
    /\ txCall.done
    /\ txCall.args.height = -1
    /\ txCall.result.error = ""
    /\ \E k \in 1..Len(txCall.result.inputs) :
          txCall.result.inputs[k].coin.coinbase

\* C25: makeMint and makeSpend called with no spend targets and no CPFP
\* context throw before they read the UTXOs or the coin store, call the
\* oracle or build a transaction, and leave everything as it was.
C25_RejectedAtOnce ==
    [][(/\ spendJob'.result = "Need to provide Spend Targets"
        /\ spendJob' # spendJob)
       => /\ spendJob'.call \in {"makeMint", "makeSpend"}
          /\ spendJob'.reads = {}
          /\ spendJob'.spendCoins = <<>>
          /\ spendJob'.mintsForSave = <<>>
          /\ pcUser = "idle" /\ pcUser' = "idle"
          /\ UNCHANGED <<mintedCoins, restoreFile, savedSpendTransactionValues,
                         mempool, utxoBalance, nextTxId, coinLog, mintCall,
                         txCall, mintJob, pcCycle>>]_vars

\* makeMint was refused for want of targets by a wallet that holds coins
C25_Witness ==
    /\ spendJob.result = "Need to provide Spend Targets"
    /\ spendJob.call = "makeMint"
    /\ Len(mintedCoins) > 0

\* makeSpend was refused for want of targets by a wallet that could pay
C25_WitnessSpend ==
    /\ spendJob.result = "Need to provide Spend Targets"
    /\ spendJob.call = "makeSpend"
    /\ approvedMints(mintedCoins) # <<>>

\* C28: signing a spend is all-or-nothing.  A signTx call that fails on any of
\* the selected coins ends the operation, hands back no signed transaction
\* (no txid, no coins to save), and leaves the coin store, the saved spend
\* values, the mempool and the restore marker as they were.
C28_SignAllOrNothing ==
    [][(pcUser = "spendBuilt" /\ spendJob'.call = "signTx"
          /\ spendJob'.result = "Error")
       => /\ pcUser' = "idle"
          /\ spendJob'.txid = 0
          /\ spendJob'.mintsForSave = <<>>
          /\ spendJob'.spendCoins = <<>>
          /\ UNCHANGED <<mintedCoins, savedSpendTransactionValues, mempool,
                         nextTxId, restoreFile, restoreStored>>]_vars

\* a signTx that failed in a wallet whose earlier spend was saved: the store
\* holds spent coins and a saved spend value that the failure left alone
C28_Witness ==
    /\ pcUser = "idle"
    /\ spendJob.call = "signTx"
    /\ spendJob.result = "Error"
    /\ savedSpendTransactionValues # {}
    /\ \E j \in 1..Len(mintedCoins) : mintedCoins[j].isSpend

\* a signTx that failed in a wallet that has not spent yet
C28_WitnessFirstSpend ==
    /\ pcUser = "idle"
    /\ spendJob.call = "signTx"
    /\ spendJob.result = "Error"
    /\ savedSpendTransactionValues = {}
    /\ Len(mintedCoins) > 0

\* every coin of the list was broadcast: it is in the mempool or in a block
Broadcast(coins) ==
    \A k \in 1..Len(coins) :
        \/ coins[k].commitment \in CommitmentsOfTxs(mempool)
        \/ OnChain(coins[k].commitment)

\* C30: a failed mint persists no partial state.  No step of mint() before its
\* saveTx call changes the coin store, whether the step succeeds or fails; the
\* step that stores coins is the saveTx call, reached only after makeMint,
\* signTx and broadcastTx succeeded, and it appends exactly the coins of the
\* transaction that was broadcast.
C30_FailedMintKeepsStore ==
    [][(pcCycle \in {"makeMint", "mintSend", "mintSave"} /\ mintJob' # mintJob)
       => /\ pcCycle \in {"makeMint", "mintSend"} => UNCHANGED mintedCoins
          /\ mintJob'.error # "none" => UNCHANGED mintedCoins
          /\ mintedCoins' # mintedCoins
             => /\ pcCycle = "mintSave"
                /\ mintJob.calls >= 1
                /\ mintJob.mintsForSave # <<>>
                /\ Broadcast(mintJob.mintsForSave)
                /\ mintedCoins' = mintedCoins \o mintJob.mintsForSave]_vars

\* a mint was abandoned after makeMint, signTx or broadcastTx failed, in a
\* wallet with funds to mint, and the store holds no coin
C30_Witness ==
    /\ pcCycle = "metaRead"
    /\ mintJob.error = "Error"
    /\ mintJob.calls >= 1
    /\ utxoBalance > denominations[1]
    /\ mintedCoins = <<>>

\* a mint went through and its coins are stored
C30_WitnessSaved ==
    /\ pcCycle = "metaRead"
    /\ mintJob.error = "none"
    /\ mintedCoins # <<>>
    /\ mempool # <<>>

\* what a caller receives when a call rejects
ErrorResults == {"Error", "InsufficientFundsError", "Need to provide Spend Targets"}

\* a step of mint() that ended in an error
MintStepFailed ==
    /\ pcCycle \in {"makeMint", "mintSend", "mintSave"}
    /\ mintJob' # mintJob
    /\ mintJob'.error # "none"

\* C29 (as claimed): mint passes every error on to its caller, the cycle,
\* except an InsufficientFundsError that it retries; a cycle whose mint rejects
\* ends there.
C29_MintPropagatesErrors ==
    [][(MintStepFailed /\ pcCycle' # "makeMint") => pcCycle' = "idle"]_vars

\* C29: makeMint, makeSpend and signTx pass every error on to their caller: a
\* failed call hands back the error and nothing else.  mint handles every
\* error itself: it retries makeMint after an InsufficientFundsError while the
\* amount is above the smallest denomination, gives up on any other error, and
\* in each case returns normally, so that the cycle goes on.
C29_CallsPropagateMintHandles ==
    [][/\ (pcUser = "idle" /\ spendJob' # spendJob /\ spendJob'.call = "makeSpend")
          => \/ /\ pcUser' = "spendBuilt"
                /\ spendJob'.result = "tx"
                /\ spendJob'.spendCoins # <<>>
             \/ /\ pcUser' = "idle"
                /\ spendJob'.result \in ErrorResults
                /\ spendJob'.spendCoins = <<>>
       /\ (pcUser = "spendBuilt" /\ pcUser' # pcUser)
          => \/ /\ pcUser' = "spendSigned"
                /\ spendJob'.result = "tx"
                /\ spendJob'.txid # 0
             \/ /\ pcUser' = "idle"
                /\ spendJob'.call = "signTx"
                /\ spendJob'.result \in ErrorResults
       /\ (pcCycle = "makeMint" /\ mintJob' # mintJob)
          => \/ /\ pcCycle' = "mintSend"
                /\ mintJob'.error = "none"
                /\ mintJob'.mintsForSave # <<>>
             \/ /\ mintJob'.error \in ErrorResults
                /\ mintJob'.mintsForSave = <<>>
       /\ MintStepFailed
          => /\ pcCycle' \in {"makeMint", "metaRead"}
             /\ pcCycle' = "makeMint"
                => /\ mintJob'.error = "InsufficientFundsError"
                   /\ mintJob.amount > denominations[1]
                   /\ mintJob'.amount = mintJob.amount - denominations[1]]_vars

\* the user's signTx was rejected with its error, and in the same wallet a mint
\* that failed was abandoned inside mint with the cycle going on
C29_Witness ==
    /\ pcUser = "idle"
    /\ spendJob.call = "signTx"
    /\ spendJob.result = "Error"
    /\ mintJob.error = "Error"
    /\ pcCycle \in {"metaRead", "metaQuery", "notify"}

\* makeSpend was rejected for lack of funds; mint retries after the same error
C29_WitnessFunds ==
    /\ spendJob.call = "makeSpend"
    /\ spendJob.result = "InsufficientFundsError"
    /\ mintJob.error = "InsufficientFundsError"
    /\ pcCycle = "makeMint"

\* the serial number the oracle derives for the wallet's key at an index
DerivedSerial(index) == createPrivateCoin(RESTORE_VALUE, DataKey, index).serialNumber

\* the records restore() collected and, once it wrote them, the store
RestoredRecords ==
    rs.mintData \o (IF restoreStored THEN mintedCoins ELSE <<>>)

\* C31: a record written by restore has isSpend = true exactly when the serial
\* number derived for the record's index is among the published used serials.
C31_SpentIffSerialUsed ==
    \A j \in 1..Len(RestoredRecords) :
        RestoredRecords[j].isSpend
            <=> Includes(usedSerials, DerivedSerial(RestoredRecords[j].index))

\* restore wrote a store with a spent coin and an unspent coin
C31_Witness ==
    /\ restoreStored
    /\ pcCycle = "restoreDone"
    /\ \E j \in 1..Len(mintedCoins) : mintedCoins[j].isSpend
    /\ \E j \in 1..Len(mintedCoins) : ~mintedCoins[j].isSpend

\* the Minted state of a coin's record
IsMinted(coin) ==
    coin.groupId = -1 /\ coin.isSpend = FALSE /\ coin.spendTxId = EmptyString

\* C32: every coin in the mintsForSave of the transaction makeMint returned is
\* in the Minted state (groupId -1, not spent, no spend transaction), and the
\* coins a mint's saveTx adds to the store enter it in that state.
C32_MintedCoinsEnterAsMinted ==
    [][/\ \A k \in 1..Len(mintJob'.mintsForSave) : IsMinted(mintJob'.mintsForSave[k])
       /\ (pcCycle = "mintSave" /\ mintJob' # mintJob
              /\ Len(mintedCoins') > Len(mintedCoins))
          => \A j \in (Len(mintedCoins) + 1)..Len(mintedCoins') :
                IsMinted(mintedCoins'[j])]_vars

\* a mint of two coins was saved: both records are in the Minted state
C32_Witness ==
    /\ pcCycle = "metaRead"
    /\ mintJob.error = "none"
    /\ spendJob = NoSpendJob
    /\ mempool # <<>>
    /\ Len(mintedCoins) = 2
    /\ IsMinted(mintedCoins[1])
    /\ IsMinted(mintedCoins[2])

\* C33: in the coin store a coin that was never spent, recorded by a mint or by
\* restore with isSpend = false, has an empty serialNumber.
C33_UnspentHasNoSerial ==
    \A j \in 1..Len(mintedCoins) :
        ~mintedCoins[j].isSpend => mintedCoins[j].serialNumber = EmptyString

\* C34: within one cycle the steps run in the order mint, metadata refresh,
\* notification.  makeMint is entered from loop()'s test only; the refresh
\* starts when no mint was needed or when the mint step has finished (its
\* transaction saved, or the mint abandoned); the query follows the refresh's
\* read; the notification follows the refresh, after the write of the
\* refreshed set when there was one, and the cycle ends with it.
C34_MintRefreshNotify ==
    [][pcCycle' # pcCycle
       => /\ pcCycle' = "makeMint" => pcCycle = "loopMint"
          /\ pcCycle' = "metaRead"
             => \/ pcCycle = "loopMint" /\ utxoBalance <= denominations[1]
                \/ /\ pcCycle \in {"makeMint", "mintSend", "mintSave"}
                   /\ mintJob'.mintsForSave = <<>>
          /\ pcCycle' = "metaQuery" => pcCycle = "metaRead"
          /\ pcCycle' = "notify"
             => \/ /\ pcCycle = "metaRead"
                   /\ ~HasCommitment(mintedCoins)
                   /\ UNCHANGED mintedCoins
                \/ /\ pcCycle = "metaQuery"
                   /\ mintedCoins' = AssignGroups(mintedCoins, metaData)
          /\ pcCycle = "notify" => pcCycle' = "idle"]_vars

\* the notification is next in a cycle whose mint was saved and whose refresh
\* wrote the coin set
C34_Witness ==
    /\ pcCycle = "notify"
    /\ mintJob = NoMintJob
    /\ mempool # <<>>
    /\ Len(mintedCoins) > 0
    /\ spendJob = NoSpendJob

\* the coins the refresh read that the query returns: those with a commitment
\* that the chain holds
Returned(coins, count) ==
    {j \in 1..Len(coins) : /\ j <= count
                           /\ coins[j].commitment # EmptyString
                           /\ OnChain(coins[j].commitment)}

\* C35: the refresh queries the metadata of every stored coin with a
\* commitment, gives each coin the query returns the returned group when the
\* mint is CONFIRMATIONS deep and -1 otherwise, and writes the set once; with
\* no commitment in the store it neither queries nor writes.
C35_RefreshAssignsEveryCoin ==
    [][/\ (pcCycle = "metaRead" /\ pcCycle' # pcCycle)
          => /\ UNCHANGED mintedCoins
             /\ pcCycle' = "metaQuery" <=> HasCommitment(mintedCoins)
             /\ pcCycle' = "metaQuery" => metaData' = Len(mintedCoins)
       /\ (pcCycle = "metaQuery" /\ pcCycle' = "notify")
          => \A j \in Returned(mintedCoins, metaData) :
                mintedCoins'[j].groupId
                   = GroupFor(chainMints[ChainEntry(mintedCoins[j].commitment)])]_vars

\* a record with its groupId left out of the comparison
SameButGroup(before, after) == after = [before EXCEPT !.groupId = after.groupId]

\* C36: the metadata refresh changes nothing but groupId.  Its read changes
\* nothing; after its query and write the store has the same coins in the
\* same order with value, index, commitment, serialNumber, isSpend and
\* spendTxId as before, and a coin the query did not return keeps its groupId.
C36_RefreshOnlyGroupId ==
    [][/\ (pcCycle = "metaRead" /\ pcCycle' # pcCycle) => UNCHANGED mintedCoins
       /\ (pcCycle = "metaQuery" /\ pcCycle' # pcCycle)
          => /\ Len(mintedCoins') = Len(mintedCoins)
             /\ \A j \in 1..Len(mintedCoins) :
                   /\ SameButGroup(mintedCoins[j], mintedCoins'[j])
                   /\ j \notin Returned(mintedCoins, metaData)
                      => mintedCoins'[j].groupId = mintedCoins[j].groupId]_vars

\* the refresh wrote a group into one coin of a store that also holds a spent
\* coin and a coin the chain does not know
C36_Witness ==
    /\ pcCycle = "notify"
    /\ \E j \in 1..Len(mintedCoins) : mintedCoins[j].isSpend
    /\ \E j \in 1..Len(mintedCoins) :
          ~mintedCoins[j].isSpend /\ mintedCoins[j].groupId >= 1
    /\ \E j \in 1..Len(mintedCoins) : ~OnChain(mintedCoins[j].commitment)

\* a step of makeMint, of makeSpend or of signTx
BuildOrSignStep ==
    \/ pcCycle = "makeMint" /\ mintJob' # mintJob
    \/ pcUser = "idle" /\ spendJob' # spendJob
    \/ pcUser = "spendBuilt" /\ pcUser' # pcUser

\* a step of saveTx, of getMintMetadataLoop's write or of restore's write
StoreWriterStep ==
    \/ pcCycle \in {"mintSave", "metaQuery", "restoreWrite"} /\ pcCycle' # pcCycle
    \/ pcUser \in {"spendSent", "spendSaved"} /\ pcUser' # pcUser

\* C37: makeMint, makeSpend and signTx leave the stored coin set, and with it
\* the last-used derivation index, unchanged; a step that changes the store is
\* a step of saveTx, of the metadata refresh or of restore.
C37_BuildAndSignKeepStore ==
    [][/\ BuildOrSignStep
          => /\ UNCHANGED mintedCoins
             /\ MaxIndexOf(mintedCoins') = MaxIndexOf(mintedCoins)
       /\ mintedCoins' # mintedCoins => StoreWriterStep]_vars

\* makeMint has built the cycle's transaction and the user's spend is signed,
\* in a wallet that holds coins
C37_Witness ==
    /\ pcCycle = "mintSend"
    /\ pcUser = "spendSigned"
    /\ spendJob.mintsForSave # <<>>
    /\ Len(mintedCoins) > 0

\* the index of the last candidate that matched, -1 when none did
LastMatched == IF rs.mintData = <<>> THEN -1
               ELSE rs.mintData[Len(rs.mintData)].index

\* C38: the restore scan terminates.  While it runs, the candidates derived
\* have the indices 0..commitmentCount, at most MISS_LIMIT candidates have
\* been derived since the last match, and the scan is left eventually.
C38_ScanTerminates ==
    /\ [](pcCycle = "restoreScan"
            => /\ rs.index <= rs.commitmentCount
               /\ rs.index - LastMatched <= MISS_LIMIT)
    /\ [](pcCycle = "restoreWrite"
            => /\ LastScanned <= rs.commitmentCount
               /\ LastScanned - LastMatched <= MISS_LIMIT)
    /\ (pcCycle = "restoreScan" ~> pcCycle # "restoreScan")

\* the scan ran to the end of the published commitments: commitmentCount + 1
\* candidates were derived
C38_Witness ==
    /\ pcCycle = "restoreWrite"
    /\ rs.commitmentCount >= 1
    /\ LastScanned = rs.commitmentCount

\* the scan gave up after MISS_LIMIT misses in a row with commitments left
C38_WitnessMissLimit ==
    /\ pcCycle = "restoreWrite"
    /\ LastScanned - LastMatched = MISS_LIMIT
    /\ LastScanned < rs.commitmentCount

\* ceil(a / d) for a >= 0
CeilDiv(a, d) == (a + d - 1) \div d

\* C39: the retry loop of mint terminates.  Before each makeMint call the
\* amount is positive and is the first amount lowered by the smallest
\* denomination once per call already made; the calls of one mint are at most
\* ceil(first amount / smallest denomination); and the loop is left eventually.
C39_RetryLoopTerminates ==
    /\ [](pcCycle = "makeMint"
            => /\ mintJob.amount >= 1
               /\ mintJob.amount + mintJob.calls * denominations[1]
                     = NeedToMint(utxoBalance))
    /\ []((pcCycle \in {"makeMint", "mintSend"}
             \/ (mintJob.error # "none" /\ mempool = <<>>))
            => mintJob.calls <= CeilDiv(NeedToMint(utxoBalance), denominations[1]))
    /\ (pcCycle = "makeMint" ~> pcCycle # "makeMint")

\* a mint was abandoned after as many calls as the bound allows, the last one
\* below the smallest denomination
C39_Witness ==
    /\ pcCycle = "metaRead"
    /\ mintJob.error # "none"
    /\ mintJob.calls >= 3
    /\ mintJob.calls = CeilDiv(NeedToMint(utxoBalance), denominations[1])

\* the position of a denomination in the order restore() tries the groups in
TierOf(value) == CHOOSE i \in 1..Len(denominations) : denominations[i] = value

\* the anonymity sets of a denomination hold the commitment
PublishedUnder(denom, commitment) ==
    Includes(SetsUpTo(denom, latestGroup), commitment)

\* C40: the set restore collects and writes has its indices strictly
\* increasing in list order, hence one record per index at most, also when a
\* commitment is published under several denominations; a record's value is
\* the denomination of the first group, in the order tried, that holds it.
C40_OneRecordPerIndex ==
    /\ \A i, j \in 1..Len(RestoredRecords) :
          (i < j /\ (j <= Len(rs.mintData) \/ i > Len(rs.mintData)))
             => RestoredRecords[i].index < RestoredRecords[j].index
    /\ \A j \in 1..Len(RestoredRecords) :
          LET r == RestoredRecords[j]
          IN  /\ r.value \in DenominationSet
              /\ PublishedUnder(r.value, r.commitment)
              /\ \A i \in 1..(TierOf(r.value) - 1) :
                    ~PublishedUnder(denominations[i], r.commitment)

\* restore wrote one record for an index whose commitment is published under
\* two denominations
C40_Witness ==
    /\ restoreStored
    /\ pcCycle = "restoreDone"
    /\ \E j \in 1..Len(mintedCoins) :
          \E d \in DenominationSet \ {mintedCoins[j].value} :
              PublishedUnder(d, mintedCoins[j].commitment)

============================================================================
